---- MODULE Spec2Model ----
(***************************************************************************)
(* A model of the dusk-blockchain node: the chain manager                  *)
(* (pkg/core/chain/chain.go) and the mempool (package mempool, held in     *)
(* harness/engine/network.go from line 482 on).                            *)
(*                                                                         *)
(* Each exported handler of the chain is one action.  A handler is written *)
(* as an operator from the state at entry (a record, "world") to the SET   *)
(* of states it can return with: the outcomes of the external              *)
(* collaborators (the executor RPC, the Loader, the transport) are the     *)
(* only nondeterminism.  What a call did is kept in the observation        *)
(* variables op, arg, err, trace and acc, which are reset by every call.   *)
(***************************************************************************)
EXTENDS Integers, Sequences, FiniteSets, TLC

\* ------------------------------------------------------------- bounds
\* Heights of the blocks fed to the chain: 0 .. MaxHeight.
MaxHeight == 2

\* Transactions are 0 .. MaxTx; 0 is the Distribute (coinbase) transaction.
MaxTx == 2
\* The pools the selection is computed on hold transactions 1 .. MaxPoolTx.
MaxPoolTx == 3
\* TxDesc.size is 1 .. MaxSize, in units of 2^30 bytes.
MaxSize == 2
\* config Mempool.MaxSizeMB * 1000 * 1000, in the same unit.
MaxSizeBytes == 2
\* config.KadcastInitialHeight.
KadcastInitialHeight == 1
\* The capacity of the channel pendingPropagation: 1000 in NewMempool, a few
\* here.
PendingCap == 1
\* user.CommitteeSize: the seats of the committee of a reduction step.
Seats == 3
\* The capacity of the channel SigSetVoteChan.
VoteChanCap == 1
\* uint8 arithmetic is arithmetic modulo Uint8.
Uint8 == 256
\* the events a selection or generation phase receives
MaxEvents == 2
\* the highest stake (score) of a candidate
MaxStake == 2
\* the highest value of a byte of an event's field
ByteMax == 1
\* the longest BLS public key of a header
MaxKeyLen == 1
\* the most votes in the vote set of an agreement
MaxVotes == 1
\* the bytes the model gives a uint64, a 256-bit hash and a BLS signature
RoundLen == 2
HashLen == 1
BLSLen == 2
\* uint32 arithmetic is arithmetic modulo Uint32: 2^32 bytes, in units of
\* 2^30 bytes.
Uint32 == 4
\* the addresses of the peers of the Connector and the maximum of
\* connections the configuration sets
MaxPeers == 3
MaxConnections == 1
\* the addresses and the Request objects of the Connmgr, and the retries
\* after which the timer of an inbound request is followed no further
MaxAddrs == 1
MaxRequests == 2
MaxTimerRetries == 2
\* the heights of the TmpMap above 0, the seconds a cache lives at most and
\* the Unix time the clock runs to
MaxRound == 1
MaxExpire == 2
MaxNow == 4

\* ------------------------------------------------------------- chain data
Heights == 0 .. MaxHeight
\* Hashes, state hashes and provisioner sets are opaque values: the chain
\* only compares them.  "" is the empty state hash (len = 0).
Hashes == {"genesis", "h1", "h2"}
StateHashes == {"", "s1"}
Provs == {"p0", "p1"}
\* Certificate.Step of a block header: 3 is what runStateTransition asks.
Steps == {1, 2, 3}

\* block.Block, reduced to the header fields the chain reads.  certOK stands
\* for the outcome of the certificate check of the block.
Blocks == [height : Heights, hash : Hashes \ {"genesis"}, prevHash : Hashes,
           stateHash : StateHashes, step : Steps, certOK : BOOLEAN]

\* The preset genesis block, the tip loaded by New.
Genesis == [height |-> 0, hash |-> "genesis", prevHash |-> "genesis",
            stateHash |-> "s1", step |-> 3, certOK |-> TRUE]

NoBlock == [height |-> -1, hash |-> "none"]

\* What a call of acceptBlock did: the tip and the provisioners at entry,
\* the block (once it passed isValidBlock), the error returned, the answer
\* of GetStateRoot, the executor call made, the state hash it answered
\* ("none": not called, "failed": the call returned an error), and whether
\* Loader.Append was called.
NoAcc == [called |-> FALSE, tipBefore |-> NoBlock, pBefore |-> "none",
          blk |-> NoBlock, err |-> "nil", root |-> "none", call |-> "none",
          resp |-> "none", appendCalled |-> FALSE]

VARIABLES
    tip,          \* Chain.tip
    p,            \* Chain.p, the current provisioners
    state,        \* synchronizer.state: "inSync" or "outSync"
    highestSeen,  \* Chain.highestSeen
    loop,         \* the consensus loop: "running" or "stopped"
    store,        \* the Loader's blocks, genesis first
    roundUpdate,  \* the RoundUpdate the running consensus loop was started
                  \* with, NoRoundUpdate while the loop is stopped, Unfollowed
                  \* where the loop is followed as running or stopped only
    op,           \* the handler that returned last ("idle": its result was read)
    arg,          \* the height and hash of the block it was called with
    err,          \* the error it returned ("nil": none)
    trace,        \* what it did, in order
    acc           \* its last call of acceptBlock

chainVars == <<tip, p, state, highestSeen, loop, store, roundUpdate,
               op, arg, err, trace, acc>>

VARIABLES
    verified,     \* Mempool.verified, the pool: a set of TxDesc, one per hash
    task,         \* the admission calls in progress, by caller
    mloop,        \* Mempool.Loop: what it is handling
    ret           \* the handler of the mempool that returned last

VARIABLE
    sel           \* the last GetMempoolTxsBySize request and its response

mempoolVars == <<verified, task, mloop, ret, sel>>

VARIABLES
    senders,             \* the goroutines of processTx that send to the channel
    pendingPropagation,  \* Mempool.pendingPropagation, the channel
    kadcast,             \* config Kadcast.Enabled
    out                  \* what propagateLoop did with the last transaction

propVars == <<senders, pendingPropagation, kadcast, out>>

VARIABLES
    ctx,             \* user.Context: Step, SigSetHash, SigSetVotes, AllVotes
                     \* and CurrentCommittee
    phase,           \* where SignatureSet is: "vote1", "send1", "count1",
                     \* "vote2", "send2", "count2" or "returned"
    counts,          \* countSigSetVotes: the votes counted for each hash
    voters,          \* countSigSetVotes: the senders whose vote is recorded
    SigSetVoteChan,  \* the messages in ctx.SigSetVoteChan, oldest first
    gossip,          \* the votes the node has gossiped
    agreements,      \* the hashes agreement.SendSet was called with
    outcome,         \* how the steps counted so far ended: "timeout" or the
                     \* winning hash
    rerr             \* the error SignatureSet returned

reductionVars == <<ctx, phase, counts, voters, SigSetVoteChan, gossip,
                   agreements, outcome, rerr>>

VARIABLES
    selector,        \* Selector.PickBest: bestEvent, the events received, the
                     \* values sent on BestEventChan and where the call is
    generation       \* SignatureSetGeneration: ctx.Weight, ctx.SigSetVotes,
                     \* highest, voters, the messages received and where the
                     \* call is

selectionVars == <<selector, generation>>

VARIABLES
    codec            \* one event on its way through a marshaller: the event
                     \* ev, the bytes.Buffer r, the event out that Unmarshal
                     \* filled, its error err and where the round trip is

eventVars == <<codec>>

consensusVars == <<reductionVars, selectionVars, eventVars>>

VARIABLES
    running,         \* of every task: the function it runs and the operation
                     \* of it that it is at
    held             \* of every lock: the task holding it for writing and
                     \* the tasks holding it for reading

lockVars == <<running, held>>

VARIABLES
    life             \* the goroutines of Mempool.Run: whether the root
                     \* context is cancelled, where Loop and propagateLoop
                     \* are, the transaction propagateLoop has taken and
                     \* the calls of OnClose

lifeVars == <<life>>

VARIABLES
    peer,            \* one Peer: the atomic disconnected, the channel quitch,
                     \* the connection conn and the number of teardowns done
    pcall            \* of every goroutine of the peer: where it is

peerVars == <<peer, pcall>>

VARIABLES
    registry,        \* Connector.registry: the addresses of the peers
    netcfg,          \* config.Get().Network
    connret          \* the last call of the Connector that returned

connectorVars == <<registry, netcfg, connret>>

VARIABLES
    reqs,            \* the Request objects made so far
    PendingList,     \* Connmgr.PendingList: address to Request
    ConnectedList,   \* Connmgr.ConnectedList: address to Request
    actionch,        \* Connmgr.actionch: the closures waiting for loop
    cpc,             \* of every Request: where the Connect on it is
    connlog          \* the dials of every Request and the calls of OnFail

connmgrVars == <<reqs, PendingList, ConnectedList, actionch, cpc, connlog>>

VARIABLES
    tmap,            \* one TmpMap
    now,             \* time.Now().Unix()
    expired          \* what the last IsExpired returned

tmpVars == <<tmap, now, expired>>

netVars == <<peerVars, connectorVars, connmgrVars, tmpVars>>

vars == <<chainVars, mempoolVars, propVars, consensusVars, lockVars, lifeVars,
          netVars>>

\* ------------------------------------------------------------- helpers
\* The state a handler is entered with: the chain's fields and a fresh
\* observation.
World == [tip |-> tip, p |-> p, state |-> state,
          highestSeen |-> highestSeen, loop |-> loop, store |-> store,
          roundUpdate |-> roundUpdate,
          err |-> "nil", trace |-> <<>>, acc |-> NoAcc]

\* w after doing e.
Ev(w, e) == [w EXCEPT !.trace = Append(@, e)]

\* w returning error e.
Ret(w, e) == [w EXCEPT !.err = e]

\* acceptBlock returning error e.
AccRet(w, e) == [w EXCEPT !.err = e, !.acc.err = e]

\* ------------------------------------------------------------- collaborators
\* Verifier.SanityCheckBlock(prevBlock, blk): the header lineage.
SanityCheckBlock(prevBlock, blk) ==
    IF blk.height = prevBlock.height + 1 /\ blk.prevHash = prevBlock.hash
    THEN "nil"
    ELSE "errSanityCheck"

\* verifiers.CheckBlockCertificate(provisioners, blk, seed).
CheckBlockCertificate(prov, blk) ==
    IF blk.certOK THEN "nil" ELSE "errCertificate"

\* block.Header.Seed and block.Header.Certificate of a block.
Seed(blk) == <<"seed", blk.hash>>
Certificate(blk) == [step |-> blk.step, ok |-> blk.certOK]

\* No consensus loop is running, nothing holds a RoundUpdate.
NoRoundUpdate == [Round |-> 0]

\* The data of the consensus loop is not followed.
Unfollowed == [Round |-> -1]

\* What the consensus loop holds once it was handed update, or stopped.
Held(w, update) == IF w.roundUpdate = Unfollowed THEN Unfollowed ELSE update

\* A RoundUpdate whose provisioners are the chain's own, not a copy.
getRoundUpdate_SharedP(w) ==
    [Round |-> w.tip.height + 1,
     P |-> "c.p",
     Seed |-> Seed(w.tip),
     Hash |-> w.tip.hash,
     LastCertificate |-> Certificate(w.tip)]

\* Chain.getRoundUpdate(): P is c.p.Copy(), the provisioners as they are
\* now.
getRoundUpdate(w) ==
    [Round |-> w.tip.height + 1,
     P |-> w.p,
     Seed |-> Seed(w.tip),
     Hash |-> w.tip.hash,
     LastCertificate |-> Certificate(w.tip)]

\* Chain.RestartConsensus: the loop is stopped and started again with the
\* RoundUpdate of the current tip, or it is stopped and the start fails. The
\* error is only logged by every caller.
RestartConsensus(w) ==
    {[Ev(w, "RestartConsensus") EXCEPT !.loop = "running",
                                       !.roundUpdate =
                                           Held(w, getRoundUpdate(w))],
     [Ev(w, "RestartConsensus") EXCEPT !.loop = "stopped",
                                       !.roundUpdate =
                                           Held(w, NoRoundUpdate)]}

\* ------------------------------------------------------------- chain.go
\* sanityCheckStateHash comparing the two hashes only, an empty tip state
\* hash included.
sanityCheckStateHash_NoEmptyCheck(w) ==
    {[err |-> "errGetStateRoot", root |-> "failed"]} \cup
    {[err |-> IF w.tip.stateHash # r
              THEN "errInvalidStateHash" ELSE "nil",
      root |-> r] : r \in StateHashes}

\* Chain.sanityCheckStateHash: the answers of GetStateRoot and the error
\* each gives.
sanityCheckStateHash(w) ==
    {[err |-> "errGetStateRoot", root |-> "failed"]} \cup
    {[err |-> IF w.tip.stateHash # r \/ w.tip.stateHash = ""
              THEN "errInvalidStateHash" ELSE "nil",
      root |-> r] : r \in StateHashes}

\* The executor call chosen by a switch on step 1.
ExecutorCall_Step1(blk) == IF blk.step = 1 THEN "Finalize" ELSE "Accept"

\* The executor call runStateTransition makes for a block.
ExecutorCall(blk) == IF blk.step = 3 THEN "Finalize" ELSE "Accept"

\* runStateTransition without its comparison of the executor's state hash
\* with the header's.
runStateTransition_NoHashCheck(w, tipBlk, blk) ==
    UNION {
        LET w1 == [Ev(w, "GetStateRoot") EXCEPT !.acc.root = s.root] IN
        IF s.err # "nil" THEN {Ret(w1, s.err)}
        ELSE LET w2 == [Ev(w1, ExecutorCall(blk)) EXCEPT
                            !.acc.call = ExecutorCall(blk)] IN
             {Ret([w2 EXCEPT !.acc.resp = "failed"], "errExecutor")} \cup
             {[w2 EXCEPT !.acc.resp = respStateHash,
                         !.p = provisionersUpdated]
              : respStateHash \in StateHashes, provisionersUpdated \in Provs}
        : s \in sanityCheckStateHash(w)}

\* Chain.runStateTransition(tipBlk, blk).
runStateTransition(w, tipBlk, blk) ==
    UNION {
        LET w1 == [Ev(w, "GetStateRoot") EXCEPT !.acc.root = s.root] IN
        IF s.err # "nil" THEN {Ret(w1, s.err)}
        ELSE LET w2 == [Ev(w1, ExecutorCall(blk)) EXCEPT
                            !.acc.call = ExecutorCall(blk)] IN
             {Ret([w2 EXCEPT !.acc.resp = "failed"], "errExecutor")} \cup
             {IF respStateHash # blk.stateHash
              THEN Ret([w2 EXCEPT !.acc.resp = respStateHash],
                       "errInvalidStateHash")
              ELSE [w2 EXCEPT !.acc.resp = respStateHash,
                              !.p = provisionersUpdated]
              : respStateHash \in StateHashes, provisionersUpdated \in Provs}
        : s \in sanityCheckStateHash(w)}

\* isValidBlock checking the certificate only.
isValidBlock_NoSanityCheck(w, blk) ==
    CheckBlockCertificate(w.p, blk)

\* Chain.isValidBlock(blk).
isValidBlock(w, blk) ==
    IF SanityCheckBlock(w.tip, blk) # "nil"
    THEN SanityCheckBlock(w.tip, blk)
    ELSE CheckBlockCertificate(w.p, blk)

\* Chain.postAcceptBlock(blk).
postAcceptBlock(w, blk) ==
    Ev(Ev(w, "PublishAcceptedBlock"), "ClearCandidateMessages")

\* acceptBlock swapping the tip and publishing before it knows what Append
\* returned.
acceptBlock_TipBeforeAppend(w, blk) ==
    LET w0 == [w EXCEPT !.acc = [NoAcc EXCEPT !.called = TRUE,
                                              !.tipBefore = w.tip,
                                              !.pBefore = w.p]]
        w1 == Ev(w0, "isValidBlock")
    IN  IF isValidBlock(w1, blk) # "nil"
        THEN {AccRet(w1, isValidBlock(w1, blk))}
        ELSE UNION {
            IF w2.err # "nil" THEN {AccRet(w2, w2.err)}
            ELSE LET w3 == [Ev(w2, "tip") EXCEPT !.tip = blk]
                     w4 == [Ev(postAcceptBlock(w3, blk), "Append")
                                EXCEPT !.acc.appendCalled = TRUE]
                 IN  {AccRet(w4, "errAppend"),
                      [w4 EXCEPT !.store = Append(@, blk)]}
            : w2 \in runStateTransition([w1 EXCEPT !.acc.blk = blk],
                                         w1.tip, blk)}

\* Chain.acceptBlock(blk).
acceptBlock(w, blk) ==
    LET w0 == [w EXCEPT !.acc = [NoAcc EXCEPT !.called = TRUE,
                                              !.tipBefore = w.tip,
                                              !.pBefore = w.p]]
        w1 == Ev(w0, "isValidBlock")
    IN  IF isValidBlock(w1, blk) # "nil"
        THEN {AccRet(w1, isValidBlock(w1, blk))}
        ELSE UNION {
            IF w2.err # "nil" THEN {AccRet(w2, w2.err)}
            ELSE LET w3 == [Ev(w2, "Append") EXCEPT !.acc.appendCalled = TRUE]
                 IN  {AccRet(w3, "errAppend"),
                      postAcceptBlock(
                          [Ev(w3, "tip") EXCEPT !.store = Append(@, blk),
                                                !.tip = blk], blk)}
            : w2 \in runStateTransition([w1 EXCEPT !.acc.blk = blk],
                                         w1.tip, blk)}

\* Chain.propagateBlock(blk, kadcastHeight): the gossip branch returns nil,
\* the Kadcast branch returns kadcastBlock's marshalling error when it has
\* one.
propagateBlock(w, blk) ==
    {Ev(w, "propagateBlock"), Ret(Ev(w, "propagateBlock"), "errPropagate")}

\* Chain.acceptSuccessiveBlock(blk, kadcastHeight).
acceptSuccessiveBlock(w, blk) ==
    UNION {
        IF w1.err # "nil" THEN {w1}
        ELSE propagateBlock(
                 [w1 EXCEPT !.highestSeen =
                      IF blk.height > @ THEN blk.height ELSE @], blk)
        : w1 \in acceptBlock(w, blk)}

\* Chain.TryNextConsecutiveBlockOutSync(blk, kadcastHeight).
TryNextConsecutiveBlockOutSync(w, blk) == acceptBlock(w, blk)

\* Chain.TryNextConsecutiveBlockInSync(blk, kadcastHeight).
TryNextConsecutiveBlockInSync(w, blk) ==
    UNION {IF w1.err # "nil" THEN {w1} ELSE RestartConsensus(w1)
     : w1 \in acceptSuccessiveBlock(w, blk)}

\* TryNextConsecutiveBlockIsValid accepting the block it finds valid.
TryNextConsecutiveBlockIsValid_Accepts(w, blk) == acceptBlock(w, blk)

\* Chain.TryNextConsecutiveBlockIsValid(blk).
TryNextConsecutiveBlockIsValid(w, blk) ==
    {Ret(Ev(w, "isValidBlock"), isValidBlock(w, blk))}

\* ProcessSyncTimerExpired setting the state without restarting consensus.
ProcessSyncTimerExpired_NoRestart(w) ==
    {[w EXCEPT !.state = "inSync"]}

\* Chain.ProcessSyncTimerExpired(strPeerAddr).
ProcessSyncTimerExpired(w) ==
    {[w1 EXCEPT !.state = "inSync"] : w1 \in RestartConsensus(w)}

\* Chain.VerifyCandidateBlock(blk): the header check against a copy of the
\* tip, then the executor's VerifyStateTransition, which answers nil or an
\* error.
VerifyCandidateBlock(w, blk) ==
    LET w1 == Ev(w, "SanityCheckBlock") IN
    IF SanityCheckBlock(w.tip, blk) # "nil"
    THEN {Ret(w1, SanityCheckBlock(w.tip, blk))}
    ELSE {Ev(w1, "VerifyStateTransition"),
          Ret(Ev(w1, "VerifyStateTransition"), "errExecutor")}

\* Chain.tryFallback(blk), for a block at the height of the tip with another
\* hash: with a valid certificate the tip is rolled back to the block before
\* it, the executor reverts, and acceptance is run again with blk.
tryFallback(w, blk) ==
    LET w1 == Ev(w, "tryFallback") IN
    IF CheckBlockCertificate(w.p, blk) # "nil"
    THEN {Ret(w1, CheckBlockCertificate(w.p, blk))}
    ELSE IF Len(w.store) < 2
    THEN {Ret(w1, "errNoPreviousBlock")}
    ELSE acceptBlock(
             [Ev(w1, "Revert") EXCEPT
                  !.tip = w.store[Len(w.store) - 1],
                  !.store = SubSeq(w.store, 1, Len(w.store) - 1)], blk)

\* synchronizer.processBlock(srcPeerID, currentHeight, blk, kadcastHeight),
\* called with a block above the tip.  In sync, a block beyond tip+1 starts
\* the sync and cancels the consensus loop, and the successor is accepted
\* directly.  Out of sync, a block beyond tip+1 is kept for later (it comes
\* back as a later call), the successor is accepted, and having caught up
\* with the highest block seen brings the node back in sync.
processBlock(w, currentHeight, blk) ==
    IF w.state = "inSync"
    THEN IF blk.height > currentHeight + 1
         THEN {[Ev(w, "startSync") EXCEPT !.state = "outSync",
                                          !.loop = "stopped",
                                          !.roundUpdate =
                                              Held(w, NoRoundUpdate)]}
         ELSE TryNextConsecutiveBlockInSync(w, blk)
    ELSE IF blk.height > currentHeight + 1
         THEN {Ev(w, "accumulate")}
         ELSE UNION {
               IF w1.err = "nil" /\ w1.tip.height >= w1.highestSeen
               THEN {[w2 EXCEPT !.state = "inSync"] : w2 \in RestartConsensus(w1)}
               ELSE {w1}
               : w1 \in TryNextConsecutiveBlockOutSync(w, blk)}

\* ProcessBlockFromNetwork trying the fallback for the blocks below the tip
\* too.
ProcessBlockFromNetwork_FallbackBelow(w, blk) ==
    IF blk.height <= w.tip.height
    THEN IF blk.hash = w.tip.hash
         THEN {w}
         ELSE {Ret(w1, "nil") : w1 \in tryFallback(w, blk)}
    ELSE processBlock(
             [w EXCEPT !.highestSeen =
                  IF blk.height > @ THEN blk.height ELSE @],
             w.tip.height, blk)

\* ProcessBlockFromNetwork without its look at the hash of the tip.
ProcessBlockFromNetwork_NoHashLook(w, blk) ==
    IF blk.height = w.tip.height
    THEN {Ret(w1, "nil") : w1 \in tryFallback(w, blk)}
    ELSE IF blk.height < w.tip.height
    THEN {w}
    ELSE processBlock(
             [w EXCEPT !.highestSeen =
                  IF blk.height > @ THEN blk.height ELSE @],
             w.tip.height, blk)

\* Chain.ProcessBlockFromNetwork(srcPeerID, m).
ProcessBlockFromNetwork(w, blk) ==
    IF blk.height = w.tip.height
    THEN IF blk.hash = w.tip.hash
         THEN {w}
         ELSE {Ret(w1, "nil") : w1 \in tryFallback(w, blk)}
    ELSE IF blk.height < w.tip.height
    THEN {w}
    ELSE processBlock(
             [w EXCEPT !.highestSeen =
                  IF blk.height > @ THEN blk.height ELSE @],
             w.tip.height, blk)

\* ------------------------------------------------------------- actions
\* The handler name called with blk returns with w.
Return(name, blk, w) ==
    /\ op' = name
    /\ arg' = [height |-> blk.height, hash |-> blk.hash]
    /\ tip' = w.tip
    /\ p' = w.p
    /\ state' = w.state
    /\ highestSeen' = w.highestSeen
    /\ loop' = w.loop
    /\ store' = w.store
    /\ roundUpdate' = w.roundUpdate
    /\ err' = w.err
    /\ trace' = w.trace
    /\ acc' = w.acc
    /\ UNCHANGED <<mempoolVars, propVars, consensusVars, lockVars, lifeVars, netVars>>

\* A peer delivers one of blocks.
CallProcessBlockFromNetworkOf(blocks) ==
    /\ op = "idle"
    /\ \E blk \in blocks : \E w \in ProcessBlockFromNetwork(World, blk) :
           Return("ProcessBlockFromNetwork", blk, w)

CallProcessBlockFromNetwork == CallProcessBlockFromNetworkOf(Blocks)

CallTryNextConsecutiveBlockIsValid ==
    /\ op = "idle"
    /\ \E blk \in Blocks : \E w \in TryNextConsecutiveBlockIsValid(World, blk) :
           Return("TryNextConsecutiveBlockIsValid", blk, w)

CallVerifyCandidateBlock ==
    /\ op = "idle"
    /\ \E blk \in Blocks : \E w \in VerifyCandidateBlock(World, blk) :
           Return("VerifyCandidateBlock", blk, w)

CallProcessSyncTimerExpired ==
    /\ op = "idle"
    /\ \E w \in ProcessSyncTimerExpired(World) :
           Return("ProcessSyncTimerExpired", NoBlock, w)

\* The caller has read what the call returned; the chain waits for the next
\* call.
Idle ==
    /\ op # "idle"
    /\ op' = "idle"
    /\ arg' = [height |-> NoBlock.height, hash |-> NoBlock.hash]
    /\ err' = "nil"
    /\ trace' = <<>>
    /\ acc' = NoAcc
    /\ UNCHANGED <<tip, p, state, highestSeen, loop, store, roundUpdate>>
    /\ UNCHANGED <<mempoolVars, propVars, consensusVars, lockVars, lifeVars, netVars>>

\* The chain as New leaves it: the tip and the provisioners loaded, the
\* synchronizer in sync, the consensus loop holding update.
ChainInitOf(update) ==
    /\ tip = Genesis
    /\ p = "p0"
    /\ state = "inSync"
    /\ highestSeen = 0
    /\ loop = "running"
    /\ store = <<Genesis>>
    /\ roundUpdate = update
    /\ op = "idle"
    /\ arg = [height |-> NoBlock.height, hash |-> NoBlock.hash]
    /\ err = "nil"
    /\ trace = <<>>
    /\ acc = NoAcc

ChainInit == ChainInitOf(Unfollowed)

ChainNext ==
    \/ CallProcessBlockFromNetwork
    \/ CallTryNextConsecutiveBlockIsValid
    \/ CallVerifyCandidateBlock
    \/ CallProcessSyncTimerExpired
    \/ Idle

\* ------------------------------------------------------------- reduction data
\* The provisioners that send votes; "me" is the node.
Nodes == {"me", "n1", "n2"}

\* The vote sets the candidates of the round carry; "nil" is no vote set.
VoteSets == {"vs1", "vs2"}

\* ctx.HashVotes(votes): the hash of the encoding of the votes; "h0" is the
\* hash of no vote at all.
HashVotes(votes) ==
    CASE votes = "vs1" -> "h1"
      [] votes = "vs2" -> "h2"
      [] OTHER -> "h0"

\* make([]byte, 32): the 32 zero bytes SignatureSet falls back to.
Fallback == "zero32"

\* The hashes a vote can carry, and those the votes of the other
\* provisioners carry.
VoteHashes == {"h0", "h1", "h2", Fallback}
PeerHashes == {"h1", "h2", Fallback}

\* sortition.CreateCommittee: the seats of a step, as the number of seats
\* each node holds.
RECURSIVE SumOver(_, _)
SumOver(f, S) ==
    IF S = {} THEN 0
    ELSE LET x == CHOOSE y \in S : TRUE IN f[x] + SumOver(f, S \ {x})

Committees == {c \in [Nodes -> 0 .. Seats] : SumOver(c, Nodes) = Seats}

\* len(committee) and sortition.Verify(committee, pk).
CommitteeLen(committee) == SumOver(committee, Nodes)
Verify(committee, pk) == committee[pk]

NoCommittee == [n \in Nodes |-> 0]

\* ctx.AllVotes[hash]: the vote set known under hash, nil when none is.
Lookup(allVotes, h) ==
    IF \E votes \in allVotes : HashVotes(votes) = h
    THEN CHOOSE votes \in allVotes : HashVotes(votes) = h
    ELSE "nil"

\* payload.MsgConsensus carrying a consensusmsg.SigSetVote.
SigSetVoteMsg(pk, h, step) == [PubKey |-> pk, SigSetHash |-> h, Step |-> step]

NoCounts == [h \in VoteHashes |-> 0]

\* ------------------------------------------------------------- setreduction.go
\* sigSetVote(ctx): the committee of the step is drawn; a member hashes
\* ctx.SigSetVotes, gossips its vote and hands it to its own counter.
sigSetVote ==
    /\ phase \in {"vote1", "vote2"}
    /\ UNCHANGED <<chainVars, mempoolVars, propVars, selectionVars, eventVars,
                   lockVars, lifeVars, netVars>>
    /\ UNCHANGED <<agreements, outcome, counts, voters>>
    /\ \/ \* sortition.CreateCommittee fails
          /\ phase' = "returned"
          /\ rerr' = "errCommittee"
          /\ UNCHANGED <<ctx, SigSetVoteChan, gossip>>
       \/ \E committee \in Committees :
            IF Verify(committee, "me") = 0
            THEN /\ ctx' = [ctx EXCEPT !.CurrentCommittee = committee]
                 /\ phase' = IF phase = "vote1" THEN "count1" ELSE "count2"
                 /\ UNCHANGED <<SigSetVoteChan, gossip, rerr>>
            ELSE LET sigSetHash == HashVotes(ctx.SigSetVotes)
                     voted == [ctx EXCEPT
                                 !.CurrentCommittee = committee,
                                 !.SigSetHash = sigSetHash,
                                 !.AllVotes = @ \cup {ctx.SigSetVotes}]
                     msg == SigSetVoteMsg("me", sigSetHash, ctx.Step)
                 IN  \/ \* signing or ctx.SendMessage fails
                        /\ ctx' = voted
                        /\ phase' = "returned"
                        /\ rerr' = "errSend"
                        /\ UNCHANGED <<SigSetVoteChan, gossip>>
                     \/ /\ ctx' = voted
                        /\ gossip' = Append(gossip, msg)
                        /\ phase' = IF phase = "vote1" THEN "send1"
                                    ELSE "send2"
                        /\ UNCHANGED <<SigSetVoteChan, rerr>>

\* sigSetVote(ctx), ctx.SigSetVoteChan <- msg: the send of the node's own
\* vote waits for room in the channel, and sigSetVote returns after it.
sigSetVote_send ==
    /\ phase \in {"send1", "send2"}
    /\ Len(SigSetVoteChan) < VoteChanCap
    /\ UNCHANGED <<chainVars, mempoolVars, propVars, selectionVars, eventVars,
                   lockVars, lifeVars, netVars>>
    /\ SigSetVoteChan' =
           Append(SigSetVoteChan,
                  SigSetVoteMsg("me", ctx.SigSetHash, ctx.Step))
    /\ phase' = IF phase = "send1" THEN "count1" ELSE "count2"
    /\ UNCHANGED <<ctx, counts, voters, gossip, agreements, outcome, rerr>>

\* SignatureSet sending every hash the second step ends with, the fallback
\* hash too, to the agreement.
AfterCount_NoFallbackCheck(c, o) ==
    LET c1 == [c EXCEPT !.Step = @ + 1]
    IN  /\ outcome' = Append(outcome, o)
        /\ counts' = NoCounts
        /\ voters' = {}
        /\ UNCHANGED gossip
        /\ IF phase = "count1"
           THEN /\ ctx' = IF c1.SigSetHash = "nil"
                          THEN [c1 EXCEPT !.SigSetHash = Fallback] ELSE c1
                /\ phase' = "vote2"
                /\ UNCHANGED <<agreements, rerr>>
           ELSE /\ phase' = "returned"
                /\ IF c1.SigSetHash = "nil"
                   THEN /\ ctx' = c1
                        /\ UNCHANGED <<agreements, rerr>>
                   ELSE /\ ctx' = c1
                        /\ agreements' = Append(agreements, c1.SigSetHash)
                        /\ rerr' \in {"nil", "errSendSet"}

\* SignatureSet after countSigSetVotes returned with the context c and the
\* outcome o: the step is advanced; after the first step a timeout becomes
\* the fallback hash, after the second a timeout and the fallback hash end
\* the phase without a result and any other hash is sent to the agreement.
AfterCount(c, o) ==
    LET c1 == [c EXCEPT !.Step = @ + 1]
    IN  /\ outcome' = Append(outcome, o)
        /\ counts' = NoCounts
        /\ voters' = {}
        /\ UNCHANGED gossip
        /\ IF phase = "count1"
           THEN /\ ctx' = IF c1.SigSetHash = "nil"
                          THEN [c1 EXCEPT !.SigSetHash = Fallback] ELSE c1
                /\ phase' = "vote2"
                /\ UNCHANGED <<agreements, rerr>>
           ELSE /\ phase' = "returned"
                /\ IF c1.SigSetHash = "nil"
                   THEN /\ ctx' = c1
                        /\ UNCHANGED <<agreements, rerr>>
                   ELSE IF c1.SigSetHash = Fallback
                   THEN /\ ctx' = [c1 EXCEPT !.SigSetHash = "nil"]
                        /\ UNCHANGED <<agreements, rerr>>
                   ELSE /\ ctx' = c1
                        /\ agreements' = Append(agreements, c1.SigSetHash)
                        /\ rerr' \in {"nil", "errSendSet"}

\* countSigSetVotes(ctx), case <-timer.C.
countTimeout ==
    /\ phase \in {"count1", "count2"}
    /\ UNCHANGED <<chainVars, mempoolVars, propVars, selectionVars, eventVars,
                   lockVars, lifeVars, netVars>>
    /\ UNCHANGED SigSetVoteChan
    /\ AfterCount([ctx EXCEPT !.SigSetHash = "nil"], "timeout")

\* The body of the case m := <-ctx.SigSetVoteChan that counts every vote,
\* whoever sent it.
countVote_NoVoters(m) ==
    LET votes == Verify(ctx.CurrentCommittee, m.PubKey)
        total == (counts[m.SigSetHash] + votes) % Uint8
        voteLimit == CommitteeLen(ctx.CurrentCommittee) % Uint8
    IN  IF total < voteLimit
        THEN /\ voters' = voters \cup {m.PubKey}
             /\ counts' = [counts EXCEPT ![m.SigSetHash] = total]
             /\ UNCHANGED <<ctx, phase, gossip, agreements, outcome, rerr>>
        ELSE AfterCount([ctx EXCEPT
                           !.SigSetHash = m.SigSetHash,
                           !.SigSetVotes = Lookup(ctx.AllVotes, m.SigSetHash)],
                        m.SigSetHash)

\* The body of the case m := <-ctx.SigSetVoteChan that counts one vote for
\* every sender, whatever sortition.Verify says of it.
countVote_OneEach(m) ==
    LET votes == 1
        total == (counts[m.SigSetHash] + votes) % Uint8
        voteLimit == CommitteeLen(ctx.CurrentCommittee) % Uint8
    IN  IF m.PubKey \in voters
        THEN UNCHANGED <<ctx, phase, counts, voters, gossip, agreements,
                         outcome, rerr>>
        ELSE IF total < voteLimit
        THEN /\ voters' = voters \cup {m.PubKey}
             /\ counts' = [counts EXCEPT ![m.SigSetHash] = total]
             /\ UNCHANGED <<ctx, phase, gossip, agreements, outcome, rerr>>
        ELSE AfterCount([ctx EXCEPT
                           !.SigSetHash = m.SigSetHash,
                           !.SigSetVotes = Lookup(ctx.AllVotes, m.SigSetHash)],
                        m.SigSetHash)

\* The body of the case m := <-ctx.SigSetVoteChan.
countVote(m) ==
    LET votes == Verify(ctx.CurrentCommittee, m.PubKey)
        total == (counts[m.SigSetHash] + votes) % Uint8
        voteLimit == CommitteeLen(ctx.CurrentCommittee) % Uint8
    IN  IF m.PubKey \in voters
        THEN UNCHANGED <<ctx, phase, counts, voters, gossip, agreements,
                         outcome, rerr>>
        ELSE IF total < voteLimit
        THEN /\ voters' = voters \cup {m.PubKey}
             /\ counts' = [counts EXCEPT ![m.SigSetHash] = total]
             /\ UNCHANGED <<ctx, phase, gossip, agreements, outcome, rerr>>
        ELSE AfterCount([ctx EXCEPT
                           !.SigSetHash = m.SigSetHash,
                           !.SigSetVotes = Lookup(ctx.AllVotes, m.SigSetHash)],
                        m.SigSetHash)

\* countSigSetVotes(ctx), case m := <-ctx.SigSetVoteChan.
countSigSetVotes ==
    /\ phase \in {"count1", "count2"}
    /\ SigSetVoteChan # <<>>
    /\ UNCHANGED <<chainVars, mempoolVars, propVars, selectionVars, eventVars,
                   lockVars, lifeVars, netVars>>
    /\ SigSetVoteChan' = Tail(SigSetVoteChan)
    /\ countVote(Head(SigSetVoteChan))

\* The message handler of the node hands a vote of another provisioner for
\* the step the node is at to the counter.
receiveSigSetVote ==
    /\ phase # "returned"
    /\ Len(SigSetVoteChan) < VoteChanCap
    /\ UNCHANGED <<chainVars, mempoolVars, propVars, selectionVars, eventVars,
                   lockVars, lifeVars, netVars>>
    /\ \E pk \in Nodes \ {"me"}, h \in PeerHashes :
         SigSetVoteChan' = Append(SigSetVoteChan,
                                  SigSetVoteMsg(pk, h, ctx.Step))
    /\ UNCHANGED <<ctx, phase, counts, voters, gossip, agreements, outcome,
                   rerr>>

\* The context signature set generation leaves: the vote set the node
\* retained is known, the vote sets of the other candidates may be.
ReductionInit ==
    /\ \E allVotes \in SUBSET VoteSets :
         ctx = [Step |-> 1, SigSetHash |-> "nil", SigSetVotes |-> "vs1",
                AllVotes |-> allVotes \cup {"vs1"},
                CurrentCommittee |-> NoCommittee]
    /\ phase = "vote1"
    /\ counts = NoCounts
    /\ voters = {}
    /\ SigSetVoteChan = <<>>
    /\ gossip = <<>>
    /\ agreements = <<>>
    /\ outcome = <<>>
    /\ rerr = "nil"

\* The reduction where SignatureSet is not followed.
ReductionIdle ==
    /\ ctx = [Step |-> 1, SigSetHash |-> "nil", SigSetVotes |-> "vs1",
              AllVotes |-> {"vs1"}, CurrentCommittee |-> NoCommittee]
    /\ phase = "vote1"
    /\ counts = NoCounts
    /\ voters = {}
    /\ SigSetVoteChan = <<>>
    /\ gossip = <<>>
    /\ agreements = <<>>
    /\ outcome = <<>>
    /\ rerr = "nil"

ReductionNext ==
    \/ sigSetVote
    \/ sigSetVote_send
    \/ countTimeout
    \/ countSigSetVotes
    \/ receiveSigSetVote

\* ------------------------------------------------------------- selection
\* The nil wire.Event.
NoEvent == [Sender |-> "nil"]

\* The events of committee members that reach Selector.EventChan.
SelectorEvents == [Sender : Nodes \ {"me"}]

\* committee.Priority(a, b): the sender b comes before the sender a.
Rank(pk) == CASE pk = "n1" -> 1 [] pk = "n2" -> 2 [] OTHER -> 0
Priority(a, b) == Rank(b) > Rank(a)

\* case ev := <-s.EventChan. bestEvent is a nil interface until an event was
\* assigned to it, and bestEvent.Sender() on it is a run-time panic.
PickBest_event ==
    /\ selector.pc = "select"
    /\ Len(selector.events) < MaxEvents
    /\ \E ev \in SelectorEvents :
         LET s1 == [selector EXCEPT !.events = Append(@, ev)]
         IN  selector' =
                 IF s1.bestEvent = NoEvent
                 THEN [s1 EXCEPT !.pc = "panic"]
                 ELSE IF Priority(s1.bestEvent.Sender, ev.Sender)
                      THEN [s1 EXCEPT !.bestEvent = ev]
                      ELSE s1
    /\ UNCHANGED <<chainVars, mempoolVars, propVars, reductionVars, generation,
                   eventVars, lockVars, lifeVars, netVars>>

\* case <-timer.C and case <-s.StopChan: s.pick(bestEvent).
PickBest_pick ==
    /\ selector.pc = "select"
    /\ selector' = [selector EXCEPT
                       !.BestEventChan = Append(@, selector.bestEvent),
                       !.pc = "returned"]
    /\ UNCHANGED <<chainVars, mempoolVars, propVars, reductionVars, generation,
                   eventVars, lockVars, lifeVars, netVars>>

\* The signature set a provisioner proposes.
SetOf(pk) == <<"set", pk>>

\* The SigSetCandidate messages: of a sender, with the stake ProcessMsg finds
\* for it, or with the error ProcessMsg returns ("low": discard the message,
\* "high": prerror.High).
CandidateMsgs ==
    {[PubKey |-> pk, SignatureSet |-> SetOf(pk), Stake |-> st, Check |-> "ok"] :
        pk \in Nodes, st \in 1..MaxStake}
    \cup {[PubKey |-> pk, SignatureSet |-> SetOf(pk), Stake |-> 0, Check |-> ch] :
        pk \in Nodes \ {"me"}, ch \in {"low", "high"}}

\* SignatureSetGeneration up to the timer: the node gossips its own candidate
\* (any of the calls may fail), records itself and starts from its own weight.
SignatureSetGeneration_start ==
    /\ generation.pc = "start"
    /\ \/ generation' = [generation EXCEPT !.pc = "error"]
       \/ generation' = [generation EXCEPT !.voters = {"me"},
                                            !.highest = generation.Weight,
                                            !.pc = "collect"]
    /\ UNCHANGED <<chainVars, mempoolVars, propVars, reductionVars, selector,
                   eventVars, lockVars, lifeVars, netVars>>

\* case <-timer.C.
SignatureSetGeneration_timer ==
    /\ generation.pc = "collect"
    /\ generation' = [generation EXCEPT !.pc = "returned"]
    /\ UNCHANGED <<chainVars, mempoolVars, propVars, reductionVars, selector,
                   eventVars, lockVars, lifeVars, netVars>>

\* case m := <-ctx.SigSetCandidateChan handling the message m.
collectCandidate(g, m) ==
    IF m.PubKey \in g.voters THEN g
    ELSE IF m.Check = "high" THEN [g EXCEPT !.pc = "error"]
    ELSE IF m.Check = "low" THEN g
    ELSE LET g1 == [g EXCEPT !.voters = @ \cup {m.PubKey}]
         IN  IF m.Stake > g1.highest
             THEN [g1 EXCEPT !.highest = m.Stake,
                             !.SigSetVotes = m.SignatureSet]
             ELSE g1

SignatureSetGeneration_candidate ==
    /\ generation.pc = "collect"
    /\ Len(generation.received) < MaxEvents
    /\ \E m \in CandidateMsgs :
         generation' = collectCandidate(
             [generation EXCEPT !.received = Append(@, m)], m)
    /\ UNCHANGED <<chainVars, mempoolVars, propVars, reductionVars, selector,
                   eventVars, lockVars, lifeVars, netVars>>

SelectorInit ==
    selector = [bestEvent |-> NoEvent, events |-> <<>>,
                BestEventChan |-> <<>>, pc |-> "select"]

GenerationOf(weight) ==
    [Weight |-> weight, SigSetVotes |-> SetOf("me"), highest |-> 0,
     voters |-> {}, received |-> <<>>, pc |-> "start"]

SelectionInit ==
    /\ SelectorInit
    /\ \E weight \in 0..MaxStake : generation = GenerationOf(weight)

SelectionIdle ==
    /\ SelectorInit
    /\ generation = GenerationOf(0)

SelectionNext ==
    \/ PickBest_event
    \/ PickBest_pick
    \/ SignatureSetGeneration_start
    \/ SignatureSetGeneration_timer
    \/ SignatureSetGeneration_candidate

\* ------------------------------------------------------------- encoding
Bytes == 0..ByteMax
Base == ByteMax + 1

\* A reader: the buffer left, the values read off it so far (the last one
\* last) and whether a read failed.  A read on a failed reader does nothing.
Reader(r) == [err |-> FALSE, r |-> r, v |-> <<>>]
Failed(s) == [s EXCEPT !.err = TRUE]

\* Reads n bytes off the buffer.
Take(s, n) ==
    IF s.err \/ Len(s.r) < n THEN Failed(s)
    ELSE [s EXCEPT !.r = SubSeq(@, n + 1, Len(@)),
                   !.v = Append(@, SubSeq(s.r, 1, n))]

\* Reads one byte as a number.
TakeByte(s) ==
    IF s.err \/ s.r = <<>> THEN Failed(s)
    ELSE [s EXCEPT !.r = Tail(@), !.v = Append(@, Head(s.r))]

\* The values read without the last n, and the n-th last value read.
Front(s, n) == SubSeq(s.v, 1, Len(s.v) - n)
Last(s, n) == s.v[Len(s.v) + 1 - n]

\* encoding.WriteVarInt / ReadVarInt, for the values below 0xfd: one byte.
WriteVarInt(r, n) == Append(r, n)
ReadVarInt(s) == TakeByte(s)

\* encoding.WriteVarBytes / ReadVarBytes: the length, then the bytes.
WriteVarBytes(r, b) == WriteVarInt(r, Len(b)) \o b
BytesOfLength(s) ==
    IF s.err THEN s ELSE Take([s EXCEPT !.v = Front(s, 1)], Last(s, 1))
ReadVarBytes(s) == BytesOfLength(ReadVarInt(s))

\* encoding.WriteUint64 / ReadUint64 with binary.LittleEndian.
RECURSIVE FromLittleEndian(_)
FromLittleEndian(b) ==
    IF b = <<>> THEN 0 ELSE Head(b) + Base * FromLittleEndian(Tail(b))

ToLittleEndian(x) == [i \in 1..RoundLen |-> (x \div (Base ^ (i - 1))) % Base]

WriteUint64(r, x) == r \o ToLittleEndian(x)
NumberOfBytes(s) ==
    IF s.err THEN s
    ELSE [s EXCEPT !.v = Append(Front(s, 1), FromLittleEndian(Last(s, 1)))]
ReadUint64(s) == NumberOfBytes(Take(s, RoundLen))

\* encoding.WriteUint8 / ReadUint8.
WriteUint8(r, x) == Append(r, x)
ReadUint8(s) == TakeByte(s)

\* encoding.Write256 / Read256 and WriteBLS / ReadBLS: bytes of a fixed
\* length, written as they are.
Write256(r, b) == r \o b
Read256(s) == Take(s, HashLen)
WriteBLS(r, b) == r \o b
ReadBLS(s) == Take(s, BLSLen)

\* ------------------------------------------------------------- events
Keys == UNION {[1..n -> Bytes] : n \in 0..MaxKeyLen}
Rounds == {0, 1, Base, (Base ^ RoundLen) - 1}
EventSteps == {0, ByteMax}
EventHashes == [1..HashLen -> Bytes]
Signatures == {[i \in 1..BLSLen |-> b] : b \in {0, ByteMax}}

Headers == [PubKeyBLS : Keys, Round : Rounds, Step : EventSteps]
Reductions == [Header : Headers, VotedHash : EventHashes, SignedHash : Signatures]

\* The votes of a vote set: reductions of one round and step.
Votes ==
    {rev \in Reductions :
        /\ rev.Header.Round = 1
        /\ rev.Header.Step = ByteMax
        /\ rev.Header.PubKeyBLS \in {<<>>, <<1>>}
        /\ rev.VotedHash = [i \in 1..HashLen |-> 0]}

ReductionSets == UNION {[1..n -> Votes] : n \in 0..MaxVotes}

Agreements ==
    [Header : Headers, SignedVoteSet : Signatures, VoteSet : ReductionSets,
     AgreedHash : EventHashes]

\* ------------------------------------------------------------- marshalling.go
HeaderMarshal(r, ev) ==
    WriteUint8(WriteUint64(WriteVarBytes(r, ev.PubKeyBLS), ev.Round), ev.Step)

\* The header of the three values read last.
HeaderOf(s) ==
    IF s.err THEN s
    ELSE [s EXCEPT !.v = Append(Front(s, 3),
                                [PubKeyBLS |-> Last(s, 3), Round |-> Last(s, 2),
                                 Step |-> Last(s, 1)])]

HeaderUnmarshal(s) == HeaderOf(ReadUint8(ReadUint64(ReadVarBytes(s))))

\* The reduction of a header, a voted hash and a signed hash read last.
ReductionOf(s) ==
    IF s.err THEN s
    ELSE [s EXCEPT !.v = Append(Front(s, 3),
                                [Header |-> Last(s, 3), VotedHash |-> Last(s, 2),
                                 SignedHash |-> Last(s, 1)])]

\* A ReductionUnMarshaller reading the signature before the voted hash.
ReductionUnmarshal_SignatureFirst(s) ==
    IF s.err THEN s
    ELSE LET s1 == Read256(ReadBLS(HeaderUnmarshal(s)))
         IN  IF s1.err THEN s1
             ELSE [s1 EXCEPT !.v = Append(Front(s1, 3),
                                [Header |-> Last(s1, 3),
                                 VotedHash |-> Last(s1, 1),
                                 SignedHash |-> Last(s1, 2)])]

ReductionUnmarshal(s) == ReductionOf(ReadBLS(Read256(HeaderUnmarshal(s))))

ReductionMarshal(r, ev) ==
    WriteBLS(Write256(HeaderMarshal(r, ev.Header), ev.VotedHash),
             ev.SignedHash)

\* evs[i] = rev: the reduction read last joins the events read before it.
VoteOf(s) ==
    IF s.err THEN s
    ELSE [s EXCEPT !.v = Append(Front(s, 2), Append(Last(s, 2), Last(s, 1)))]

\* The loop of UnmarshalVoteSet with length more reductions to read.
RECURSIVE UnmarshalVotes(_, _)
UnmarshalVotes(s, length) ==
    IF s.err \/ length = 0 THEN s
    ELSE UnmarshalVotes(VoteOf(ReductionUnmarshal(s)), length - 1)

\* evs := make([]wire.Event, length) in the place of the length read.
VotesOfLength(s) ==
    IF s.err THEN s
    ELSE UnmarshalVotes([s EXCEPT !.v = Append(Front(s, 1), <<>>)], Last(s, 1))

UnmarshalVoteSet(s) == VotesOfLength(ReadVarInt(s))

RECURSIVE MarshalVotes(_, _)
MarshalVotes(r, evs) ==
    IF evs = <<>> THEN r
    ELSE MarshalVotes(ReductionMarshal(r, Head(evs)), Tail(evs))

MarshalVoteSet(r, evs) == MarshalVotes(WriteVarInt(r, Len(evs)), evs)

\* The agreement of the four values read last.
AgreementOf(s) ==
    IF s.err THEN s
    ELSE [s EXCEPT !.v = Append(Front(s, 4),
                                [Header |-> Last(s, 4),
                                 SignedVoteSet |-> Last(s, 3),
                                 VoteSet |-> Last(s, 2),
                                 AgreedHash |-> Last(s, 1)])]

AgreementUnmarshal(s) ==
    AgreementOf(Read256(UnmarshalVoteSet(ReadBLS(HeaderUnmarshal(s)))))

AgreementMarshal(r, ev) ==
    Write256(MarshalVoteSet(WriteBLS(HeaderMarshal(r, ev.Header),
                                     ev.SignedVoteSet),
                            ev.VoteSet),
             ev.AgreedHash)

\* The events with the marshaller of their type.
Events ==
    {[kind |-> "Header", e |-> ev] : ev \in Headers}
    \cup {[kind |-> "Reduction", e |-> ev] : ev \in Reductions}
    \cup {[kind |-> "Agreement", e |-> ev] : ev \in Agreements}

MarshalOf(kind, r, ev) ==
    CASE kind = "Header" -> HeaderMarshal(r, ev)
      [] kind = "Reduction" -> ReductionMarshal(r, ev)
      [] kind = "Agreement" -> AgreementMarshal(r, ev)

UnmarshalOf(kind, s) ==
    CASE kind = "Header" -> HeaderUnmarshal(s)
      [] kind = "Reduction" -> ReductionUnmarshal(s)
      [] kind = "Agreement" -> AgreementUnmarshal(s)

NoneDecoded == [kind |-> "none"]

CodecOf(ev) ==
    [ev |-> ev, r |-> <<>>, out |-> NoneDecoded, err |-> FALSE, pc |-> "new"]

\* Marshal writes the event into the empty buffer.
Marshal ==
    /\ codec.pc = "new"
    /\ codec' = [codec EXCEPT !.r = MarshalOf(codec.ev.kind, @, codec.ev.e),
                              !.pc = "marshalled"]
    /\ UNCHANGED <<chainVars, mempoolVars, propVars, reductionVars,
                   selectionVars, lockVars, lifeVars, netVars>>

\* Unmarshal reads an event of the same type off the buffer.
Unmarshal ==
    /\ codec.pc = "marshalled"
    /\ LET res == UnmarshalOf(codec.ev.kind, Reader(codec.r))
       IN  codec' = [codec EXCEPT
                        !.out = IF res.err THEN NoneDecoded
                                ELSE [kind |-> codec.ev.kind,
                                      e |-> Last(res, 1)],
                        !.err = res.err,
                        !.r = res.r,
                        !.pc = "unmarshalled"]
    /\ UNCHANGED <<chainVars, mempoolVars, propVars, reductionVars,
                   selectionVars, lockVars, lifeVars, netVars>>

EventInit == \E ev \in Events : codec = CodecOf(ev)

EventIdle ==
    codec = CodecOf([kind |-> "Header",
                     e |-> [PubKeyBLS |-> <<>>, Round |-> 0, Step |-> 0]])

EventNext == Marshal \/ Unmarshal

\* The consensus where it is not followed.
ConsensusIdle == ReductionIdle /\ SelectionIdle /\ EventIdle

\* ------------------------------------------------------------- locks
\* The shared data and the sync.RWMutex beside each: c.tip with c.lock of
\* the Chain, c.registry with c.lock of the Connector.
Shared == {"tip", "registry"}

Do(kind, res) == [op |-> kind, res |-> res]

\* What a function does to the shared data and the locks, in program order.
Program(fn) ==
    CASE fn = "ProcessBlockFromNetwork" ->
             <<Do("Lock", "tip"), Do("read", "tip"), Do("write", "tip"),
               Do("Unlock", "tip")>>
      [] fn = "TryNextConsecutiveBlockIsValid" ->
             <<Do("read", "tip")>>
      [] fn = "ProcessSyncTimerExpired" ->
             <<Do("read", "tip"), Do("Lock", "tip"), Do("read", "tip"),
               Do("Unlock", "tip")>>
      [] fn = "VerifyCandidateBlock" ->
             <<Do("Lock", "tip"), Do("read", "tip"), Do("Unlock", "tip")>>
      [] fn = "CalculateSyncProgress" ->
             <<Do("RLock", "tip"), Do("read", "tip"), Do("RUnlock", "tip")>>
      [] fn = "addPeer" ->
             <<Do("Lock", "registry"), Do("write", "registry"),
               Do("Unlock", "registry")>>
      [] fn = "removePeer" ->
             <<Do("Lock", "registry"), Do("write", "registry"),
               Do("read", "registry"), Do("Unlock", "registry")>>
      [] fn = "logPeerCount" ->
             <<Do("read", "registry")>>
      [] fn = "GetConnectionsCount" ->
             <<Do("RLock", "registry"), Do("read", "registry"),
               Do("RUnlock", "registry")>>

\* The tasks and the functions each of them calls.
Calls ==
    [network |-> {"ProcessBlockFromNetwork"},
     consensus |-> {"TryNextConsecutiveBlockIsValid", "VerifyCandidateBlock"},
     timer |-> {"ProcessSyncTimerExpired"},
     rpc |-> {"CalculateSyncProgress", "GetConnectionsCount"},
     peer |-> {"addPeer", "removePeer"},
     logger |-> {"logPeerCount"}]

Goroutines == DOMAIN Calls

Resting == [fn |-> "none", pc |-> 0]
Unheld == [writer |-> "none", readers |-> {}]

\* The operation the task t is at.
Current(t) ==
    IF running[t] = Resting THEN Do("none", "none")
    ELSE Program(running[t].fn)[running[t].pc]

\* The task t past the operation it is at.
Advanced(t) ==
    IF running[t].pc = Len(Program(running[t].fn))
    THEN [running EXCEPT ![t] = Resting]
    ELSE [running EXCEPT ![t].pc = @ + 1]

\* A running calls one of its functions.
Call(t) ==
    /\ running[t] = Resting
    /\ \E fn \in Calls[t] : running' = [running EXCEPT ![t] = [fn |-> fn, pc |-> 1]]
    /\ UNCHANGED held
    /\ UNCHANGED <<chainVars, mempoolVars, propVars, consensusVars, lifeVars, netVars>>

\* sync.RWMutex Lock and RLock: a writer excludes everyone, readers exclude
\* writers.
Acquire(t) ==
    /\ Current(t).op \in {"Lock", "RLock"}
    /\ LET l == Current(t).res
       IN  /\ held[l].writer = "none"
           /\ IF Current(t).op = "Lock"
              THEN /\ held[l].readers = {}
                   /\ held' = [held EXCEPT ![l].writer = t]
              ELSE held' = [held EXCEPT ![l].readers = @ \cup {t}]
    /\ running' = Advanced(t)
    /\ UNCHANGED <<chainVars, mempoolVars, propVars, consensusVars, lifeVars, netVars>>

\* sync.RWMutex Unlock and RUnlock.
Release(t) ==
    /\ Current(t).op \in {"Unlock", "RUnlock"}
    /\ LET l == Current(t).res
       IN  held' = IF Current(t).op = "Unlock"
                   THEN [held EXCEPT ![l].writer = "none"]
                   ELSE [held EXCEPT ![l].readers = @ \ {t}]
    /\ running' = Advanced(t)
    /\ UNCHANGED <<chainVars, mempoolVars, propVars, consensusVars, lifeVars, netVars>>

\* The task ends the read or write it is at.
Access(t) ==
    /\ Current(t).op \in {"read", "write"}
    /\ running' = Advanced(t)
    /\ UNCHANGED held
    /\ UNCHANGED <<chainVars, mempoolVars, propVars, consensusVars, lifeVars, netVars>>

LockInit ==
    /\ running = [t \in Goroutines |-> Resting]
    /\ held = [l \in Shared |-> Unheld]

LockNext == \E t \in Goroutines : Call(t) \/ Acquire(t) \/ Release(t) \/ Access(t)

\* ------------------------------------------------------------- peer.go, Peer
\* The goroutines Peer.Run starts, and the function of ReadLoop's idle timer.
PeerTasks == {"StartProtocol", "ReadLoop", "WriteLoop", "idleTimer"}

\* NewPeer and Run: the loops at their test of p.disconnected, the idle
\* timer armed.
PeerInit ==
    /\ peer = [disconnected |-> 0, quitch |-> "open", conn |-> "open",
               teardowns |-> 0]
    /\ pcall = [t \in PeerTasks |-> "loop"]

\* A goroutine of the peer goes from pc to where next says.
PeerStep(t, from, to) ==
    /\ peer.quitch # "panic"
    /\ pcall[t] = from
    /\ pcall' = [pcall EXCEPT ![t] = to]
    /\ UNCHANGED <<chainVars, mempoolVars, propVars, consensusVars, lockVars,
                   lifeVars, connectorVars, connmgrVars, tmpVars>>

\* StartProtocol leaves its loop: p.disconnected is set, quitch is closed, or
\* the stall detector quit; then it calls Disconnect.
StartProtocol ==
    /\ PeerStep("StartProtocol", "loop", "Load")
    /\ UNCHANGED peer

\* ReadLoop leaves its loop: p.disconnected is set, Read failed or a second
\* version message came; it stops the idle timer and calls Disconnect.
ReadLoop ==
    /\ PeerStep("ReadLoop", "loop", "Load")
    /\ UNCHANGED peer

\* The idle timer of ReadLoop fires while a Read is going on; its function
\* calls Disconnect.
idleTimer ==
    /\ pcall["ReadLoop"] = "loop"
    /\ PeerStep("idleTimer", "loop", "Load")
    /\ UNCHANGED peer

\* WriteLoop: with p.disconnected set the loop ends; otherwise the stall
\* detector quit and Disconnect is called.
WriteLoop ==
    /\ PeerStep("WriteLoop", "loop",
                IF peer.disconnected # 0 THEN "done" ELSE "Load")
    /\ UNCHANGED peer

\* Where Disconnect returns to: WriteLoop goes back to its test, the others
\* end.
Returned(t) == IF t = "WriteLoop" THEN "loop" ELSE "done"

\* Disconnect, atomic.LoadInt32(&p.disconnected): return if already
\* disconnected.
Disconnect_Load(t) ==
    /\ PeerStep(t, "Load",
                IF peer.disconnected # 0 THEN Returned(t) ELSE "Add")
    /\ UNCHANGED peer

\* Disconnect, atomic.AddInt32(&p.disconnected, 1).
Disconnect_Add(t) ==
    /\ PeerStep(t, "Add", "teardown")
    /\ peer' = [peer EXCEPT !.disconnected = @ + 1]

\* Disconnect, the teardown: p.Detector.Quit(), close(p.quitch), which
\* panics on a closed channel, and p.conn.Close().
Disconnect_teardown(t) ==
    /\ PeerStep(t, "teardown", Returned(t))
    /\ peer' = [peer EXCEPT
                  !.teardowns = @ + 1,
                  !.quitch = IF @ = "open" THEN "closed" ELSE "panic",
                  !.conn = IF peer.quitch = "open" THEN "closed" ELSE @]

PeerNext ==
    \/ StartProtocol
    \/ ReadLoop
    \/ idleTimer
    \/ WriteLoop
    \/ \E t \in PeerTasks :
         Disconnect_Load(t) \/ Disconnect_Add(t) \/ Disconnect_teardown(t)

\* ------------------------------------------------------------- peer.go, Connector
\* The addresses of the peers that connect and are connected to.
PeerAddrs == 1 .. MaxPeers

\* defaultMaxConnections.
defaultMaxConnections == 50

NoConnRet == [op |-> "none", addr |-> 0, err |-> "nil"]

\* NewConnector: an empty registry; the configuration sets no maximum of
\* connections (0) or sets MaxConnections.
ConnectorInit ==
    /\ registry = {}
    /\ netcfg \in {[MaxConnections |-> n] : n \in {0, MaxConnections}}
    /\ connret = NoConnRet

\* The Connector where none is followed.
ConnectorIdle ==
    /\ registry = {}
    /\ netcfg = [MaxConnections |-> 0]
    /\ connret = NoConnRet

\* Connector.GetConnectionsCount().
GetConnectionsCount == Cardinality(registry)

\* Connector.addPeer(address) and Connector.removePeer(address).
addPeer(address) == registry \cup {address}
removePeer(address) == registry \ {address}

\* The call op for addr returns err and leaves the registry reg.
ConnectorReturn(do, addr, e, reg) ==
    /\ registry' = reg
    /\ connret' = [op |-> do, addr |-> addr, err |-> e]
    /\ UNCHANGED netcfg
    /\ UNCHANGED <<chainVars, mempoolVars, propVars, consensusVars, lockVars,
                   lifeVars, peerVars, connmgrVars, tmpVars>>

\* Connector.acceptConnection(conn) for a connection the listener accepted:
\* the handshake fails, or the peer is added.
acceptConnection ==
    \E addr \in PeerAddrs, e \in {"errHandshake", "nil"} :
        ConnectorReturn("acceptConnection", addr, e,
                        IF e = "nil" THEN addPeer(addr) ELSE registry)

\* Connector.proposeConnection(conn), called by Connect after its Dial: the
\* registries it can leave.
proposeConnection(addr) == {registry, addPeer(addr)}

\* Connector.ProcessNewAddress(srcPeerID, m) for an Addr message: refused
\* above the maximum of connections; otherwise Connect, whose Dial may fail.
ProcessNewAddress ==
    \E addr \in PeerAddrs :
        LET maxConn == IF netcfg.MaxConnections = 0
                       THEN defaultMaxConnections
                       ELSE netcfg.MaxConnections
        IN  IF GetConnectionsCount > maxConn
            THEN ConnectorReturn("ProcessNewAddress", addr,
                                 "errMaxConnections", registry)
            ELSE \/ ConnectorReturn("ProcessNewAddress", addr, "errDial",
                                    registry)
                 \/ \E reg \in proposeConnection(addr) :
                      ConnectorReturn("ProcessNewAddress", addr, "nil", reg)

\* The goroutine of a connection: connectFunc returned, the peer is removed.
connectFunc ==
    \E addr \in registry :
        ConnectorReturn("removePeer", addr, "nil", removePeer(addr))

ConnectorNext ==
    \/ acceptConnection
    \/ ProcessNewAddress
    \/ connectFunc

\* ------------------------------------------------------------- connmgr
\* The addresses config.GetAddress hands out and the Request objects.
ConnAddrs == 1 .. MaxAddrs
ReqIds == 1 .. MaxRequests

\* maxRetries, and the capacity of actionch.
maxRetries == 5
ActionChCap == 300

\* &Request{}: no address, no retries, not inbound, not permanent, no
\* connection.
Request(addr) ==
    [Addr |-> addr, Retries |-> 0, Inbound |-> FALSE, Permanent |-> FALSE,
     Conn |-> "nil"]

\* connmgr.New: both lists empty, nothing for loop to run.
ConnmgrInit ==
    /\ reqs = <<>>
    /\ PendingList = [a \in ConnAddrs |-> 0]
    /\ ConnectedList = [a \in ConnAddrs |-> 0]
    /\ actionch = <<>>
    /\ cpc = <<>>
    /\ connlog = [dials |-> <<>>, OnFail |-> <<>>, crashed |-> FALSE]

\* The Connmgr where none is followed.
ConnmgrIdle == ConnmgrInit

\* The Request objects still to be made: by NewRequest, or by a disconnected
\* closure that is waiting for loop.
Unmade ==
    MaxRequests - Len(reqs)
        - Cardinality({i \in DOMAIN actionch :
                         actionch[i].fn = "disconnected"})

\* A step of the Connmgr: the process has not panicked.
ConnmgrStep ==
    /\ ~connlog.crashed
    /\ UNCHANGED <<chainVars, mempoolVars, propVars, consensusVars, lockVars,
                   lifeVars, peerVars, connectorVars, tmpVars>>

\* c.actionch <- func() {...}: the closure fn for the Request r is sent.
Send(fn, r) == Append(actionch, [fn |-> fn, r |-> r])

\* Connmgr.NewRequest(): a new Request for the address GetAddress returned,
\* and Connect is called on it.
NewRequest ==
    /\ ConnmgrStep
    /\ Unmade > 0
    /\ \E addr \in ConnAddrs : reqs' = Append(reqs, Request(addr))
    /\ cpc' = Append(cpc, "Connect")
    /\ connlog' = [connlog EXCEPT !.dials = Append(@, 0),
                                  !.OnFail = Append(@, 0)]
    /\ UNCHANGED <<PendingList, ConnectedList, actionch>>

\* Connmgr.Connect(r) up to its wait for loop: r.Retries++ and the dial;
\* after a failed dial pending(r) is sent, after a dial that succeeded the
\* connection is kept, the request is marked inbound and connected(r) is
\* sent.
Connect(r) ==
    /\ ConnmgrStep
    /\ cpc[r] = "Connect"
    /\ Len(actionch) < ActionChCap
    /\ connlog' = [connlog EXCEPT !.dials[r] = @ + 1]
    /\ \/ /\ reqs' = [reqs EXCEPT ![r].Retries = (@ + 1) % Uint8]
          /\ actionch' = Send("pending", r)
          /\ cpc' = [cpc EXCEPT ![r] = "pending"]
       \/ /\ reqs' = [reqs EXCEPT ![r].Retries = (@ + 1) % Uint8,
                                  ![r].Conn = "open",
                                  ![r].Inbound = TRUE]
          /\ actionch' = Send("connected", r)
          /\ cpc' = [cpc EXCEPT ![r] = "connected"]
    /\ UNCHANGED <<PendingList, ConnectedList>>

\* Connmgr.Connect(r) after pending(r) returned: failed(r) is sent and
\* Connect returns the error of the dial.
Connect_failed(r) ==
    /\ ConnmgrStep
    /\ cpc[r] = "failed"
    /\ Len(actionch) < ActionChCap
    /\ actionch' = Send("failed", r)
    /\ cpc' = [cpc EXCEPT ![r] = "done"]
    /\ UNCHANGED <<reqs, PendingList, ConnectedList, connlog>>

\* The closure of failed that gives up one retry later.
failed_OneMore(req) ==
    IF req.Inbound \/ req.Permanent THEN "AfterFunc"
    ELSE IF req.Retries > maxRetries + 1 THEN "OnFail"
    ELSE "Connect"

\* The closure of Connmgr.failed(r): an inbound or permanent request is
\* retried by a timer, a request with more than maxRetries retries is given
\* up, any other is connected again at once.
failed(req) ==
    IF req.Inbound \/ req.Permanent THEN "AfterFunc"
    ELSE IF req.Retries > maxRetries THEN "OnFail"
    ELSE "Connect"

\* Connmgr.loop running the closure of pending(r).
loop_pending ==
    LET r == Head(actionch).r IN
    /\ PendingList' = [PendingList EXCEPT ![reqs[r].Addr] = r]
    /\ cpc' = [cpc EXCEPT ![r] = "failed"]
    /\ UNCHANGED <<reqs, ConnectedList, connlog>>

\* Connmgr.loop running the closure of connected(r).
loop_connected ==
    LET r == Head(actionch).r IN
    /\ reqs' = [reqs EXCEPT ![r].Retries = 0]
    /\ ConnectedList' = [ConnectedList EXCEPT ![reqs[r].Addr] = r]
    /\ PendingList' = [PendingList EXCEPT ![reqs[r].Addr] = 0]
    /\ cpc' = [cpc EXCEPT ![r] = "done"]
    /\ UNCHANGED connlog

\* Connmgr.loop running the closure of failed(r).
loop_failed ==
    LET r == Head(actionch).r
        todo == failed(reqs[r])
    IN  /\ cpc' = [cpc EXCEPT ![r] = IF todo = "OnFail" THEN "done"
                                     ELSE todo]
        /\ PendingList' = IF todo = "OnFail"
                          THEN [PendingList EXCEPT ![reqs[r].Addr] = 0]
                          ELSE PendingList
        /\ connlog' = IF todo = "OnFail"
                      THEN [connlog EXCEPT !.OnFail[r] = @ + 1]
                      ELSE connlog
        /\ UNCHANGED <<reqs, ConnectedList>>

\* Connmgr.loop running the closure of disconnected(r): a nil request and a
\* request without a connection end in a nil dereference; otherwise the
\* request is copied, its connection closed, its address deleted from both
\* lists, and failed is sent for the copy.
loop_disconnected ==
    LET r == Head(actionch).r IN
    IF r = 0 \/ reqs[r].Conn = "nil"
    THEN /\ connlog' = [connlog EXCEPT !.crashed = TRUE]
         /\ UNCHANGED <<reqs, PendingList, ConnectedList, cpc>>
    ELSE /\ reqs' = Append([reqs EXCEPT ![r].Conn = "nil"],
                           [reqs[r] EXCEPT !.Conn = "closed"])
         /\ cpc' = Append(cpc, "done")
         /\ connlog' = [connlog EXCEPT !.dials = Append(@, 0),
                                       !.OnFail = Append(@, 0)]
         /\ PendingList' = [PendingList EXCEPT ![reqs[r].Addr] = 0]
         /\ ConnectedList' = [ConnectedList EXCEPT ![reqs[r].Addr] = 0]

\* Connmgr.loop: case f := <-c.actionch, f().
ConnmgrLoop ==
    /\ ConnmgrStep
    /\ actionch # <<>>
    /\ LET f == Head(actionch) IN
         CASE f.fn = "pending" ->
                  loop_pending /\ actionch' = Tail(actionch)
           [] f.fn = "connected" ->
                  loop_connected /\ actionch' = Tail(actionch)
           [] f.fn = "failed" ->
                  loop_failed /\ actionch' = Tail(actionch)
           [] f.fn = "disconnected" ->
                  /\ loop_disconnected
                  /\ actionch' =
                         IF f.r = 0 \/ reqs[f.r].Conn = "nil"
                         THEN Tail(actionch)
                         ELSE Append(Tail(actionch),
                                     [fn |-> "failed", r |-> Len(reqs) + 1])

\* time.AfterFunc(multiplier*time.Second, func() { c.Connect(r) }): the
\* timer of an inbound or permanent request fires.
AfterFunc(r) ==
    /\ ConnmgrStep
    /\ cpc[r] = "AfterFunc"
    /\ reqs[r].Retries < MaxTimerRetries
    /\ cpc' = [cpc EXCEPT ![r] = "Connect"]
    /\ UNCHANGED <<reqs, PendingList, ConnectedList, actionch, connlog>>

\* Connmgr.Disconnect(addr): the request is looked up in the connected list,
\* then in the pending list, and disconnected is sent for what was found.
Disconnect(addr) ==
    /\ ConnmgrStep
    /\ Unmade > 0
    /\ Len(actionch) < ActionChCap
    /\ actionch' = Send("disconnected",
                        IF ConnectedList[addr] # 0 THEN ConnectedList[addr]
                        ELSE PendingList[addr])
    /\ UNCHANGED <<reqs, PendingList, ConnectedList, cpc, connlog>>

ConnmgrNext ==
    \/ NewRequest
    \/ \E r \in DOMAIN reqs : Connect(r)
    \/ \E r \in DOMAIN reqs : Connect_failed(r)
    \/ \E r \in DOMAIN reqs : AfterFunc(r)
    \/ ConnmgrLoop
    \/ \E addr \in ConnAddrs : Disconnect(addr)

\* ------------------------------------------------------------- dupemap
\* The heights AddAt is called with; the TTL of a height without a cache is 0.
TmpHeights == 0 .. MaxRound

\* NewTmpMap(capacity, expire): height 0, no cache, and expiryTimestamp left
\* at its zero value. The clock starts at a positive Unix time.
TmpInit ==
    /\ \E expire \in 0 .. MaxExpire :
         tmap = [height |-> 0, expire |-> expire, expiryTimestamp |-> 0,
                 msgFilter |-> [h \in TmpHeights |-> 0]]
    /\ now = 1
    /\ expired = "none"

\* The TmpMap where none is followed.
TmpIdle ==
    /\ tmap = <<>>
    /\ now = 0
    /\ expired = "none"

\* A call of the TmpMap other than IsExpired, leaving the map as m.
TmpCall(m) ==
    /\ tmap' = m
    /\ expired' = "none"
    /\ UNCHANGED now
    /\ UNCHANGED <<chainVars, mempoolVars, propVars, consensusVars, lockVars,
                   lifeVars, peerVars, connectorVars, connmgrVars>>

\* TmpMap.add(b, round): a height without a cache gets one whose TTL is
\* expire seconds from now.
add(round) ==
    IF tmap.msgFilter[round] = 0
    THEN [tmap EXCEPT !.msgFilter[round] = now + tmap.expire]
    ELSE tmap

\* TmpMap.Add(b).
Add == TmpCall(add(tmap.height))

\* TmpMap.AddAt(b, height).
AddAt == \E height \in TmpHeights : TmpCall(add(height))

\* TmpMap.CleanExpired(): the caches whose TTL has passed are deleted.
CleanExpired ==
    TmpCall([tmap EXCEPT !.msgFilter =
                [h \in TmpHeights |-> IF now >= tmap.msgFilter[h] THEN 0
                                      ELSE tmap.msgFilter[h]]])

\* TmpMap.IsExpired().
IsExpired ==
    /\ expired' = IF now >= tmap.expiryTimestamp THEN "true" ELSE "false"
    /\ UNCHANGED <<tmap, now>>
    /\ UNCHANGED <<chainVars, mempoolVars, propVars, consensusVars, lockVars,
                   lifeVars, peerVars, connectorVars, connmgrVars>>

\* A second passes.
Tick ==
    /\ now < MaxNow
    /\ now' = now + 1
    /\ expired' = "none"
    /\ UNCHANGED tmap
    /\ UNCHANGED <<chainVars, mempoolVars, propVars, consensusVars, lockVars,
                   lifeVars, peerVars, connectorVars, connmgrVars>>

TmpNext ==
    \/ Add
    \/ AddAt
    \/ CleanExpired
    \/ IsExpired
    \/ Tick

\* The peer, the Connector, the Connmgr and the TmpMap where none of them is
\* followed.
NetIdle ==
    /\ PeerInit
    /\ ConnectorIdle
    /\ ConnmgrIdle
    /\ TmpIdle

\* ------------------------------------------------------------- mempool data
\* The callers that admit transactions: the peer reader calling ProcessTx
\* and the goroutine Loop starts for a SendMempoolTx request.
Tasks == {"peer", "rpc"}

TxIds == 0 .. MaxTx

\* transactions.ContractCall: its hash is its id, and its type and fee follow
\* from its body.
TxType(id) == IF id = 0 THEN "Distribute" ELSE "Tx"
Fee(id) == (id % 2) + 1

Sizes == 1 .. MaxSize

\* The first byte of the header of the Tx messages the peers send: they
\* are kadcast messages of the initial height.
PeerKadHeights == {KadcastInitialHeight}

\* TxDesc{tx, size, kadHeight}.
TxDescs == [id : 0 .. MaxPoolTx, size : Sizes, kadHeight : 0 .. KadcastInitialHeight + 1]

NoTx == [id |-> -1, size |-> 0, kadHeight |-> 0]

\* The transactions of an accepted block, in the order of the block.
BlockTxs ==
    {txs \in UNION {[1 .. n -> TxIds] : n \in 1 .. MaxTx + 1} :
        \A i, j \in DOMAIN txs : i < j => txs[i] < txs[j]}

NoRet == [op |-> "none", caller |-> "none", id |-> -1, t |-> NoTx, txs |-> <<>>,
          err |-> "nil", verdict |-> "none", queued |-> FALSE]

NoSel == [maxTxsSize |-> -1, order |-> <<>>, txs |-> <<>>, err |-> "nil"]

\* ------------------------------------------------------------- the Pool
\* Pool.Contains(txhash).
Contains(pool, id) == \E e \in pool : e.id = id

\* Pool.Put(TxDesc): one entry per hash.
Put(pool, t) == {e \in pool : e.id # t.id} \cup {t}

\* Pool.Delete(txhash).
Delete(pool, id) == {e \in pool : e.id # id}

\* Pool.Len().
PoolLen(pool) == Cardinality(pool)

RECURSIVE SumSizes(_)
SumSizes(pool) ==
    IF pool = {} THEN 0
    ELSE LET e == CHOOSE x \in pool : TRUE
         IN  e.size + SumSizes(pool \ {e})

\* Pool.Size(), in bytes.
PoolSize(pool) == SumSizes(pool)

\* Pool.RangeSort(callback): the orders it may visit the entries in,
\* descending by fee.
RangeSort(pool) ==
    {o \in [1 .. Cardinality(pool) -> pool] :
        /\ \A i, j \in DOMAIN o : i # j => o[i] # o[j]
        /\ \A i, j \in DOMAIN o : i < j => Fee(o[i].id) >= Fee(o[j].id)}

\* ------------------------------------------------------------- mempool
\* The handler called by caller for transaction id returns; t is the TxDesc
\* it queued for propagation, if it did.
MempoolReturn(name, caller, id, e, verdict, queued) ==
    ret' = [op |-> name, caller |-> caller, id |-> id,
            t |-> IF queued THEN task[caller].t ELSE NoTx,
            txs |-> <<>>, err |-> e, verdict |-> verdict, queued |-> queued]

\* Mempool.ProcessTx(srcPeerID, msg): the check of the size of the pool,
\* then processTx.
ProcessTxOf(heights) ==
    /\ ret = NoRet
    /\ task["peer"].pc = "idle"
    /\ UNCHANGED <<chainVars, propVars, consensusVars, lockVars, lifeVars, netVars>>
    /\ \E id \in TxIds, size \in Sizes, h \in heights :
         IF PoolSize(verified) > MaxSizeBytes
         THEN /\ MempoolReturn("ProcessTx", "peer", id, "errMempoolFull",
                               "none", FALSE)
              /\ UNCHANGED <<verified, task>>
         ELSE /\ task' = [task EXCEPT !["peer"] =
                    [pc |-> "processTx",
                     t |-> [id |-> id, size |-> size, kadHeight |-> h]]]
              /\ UNCHANGED <<verified, ret>>
    /\ UNCHANGED <<mloop, sel>>

\* ProcessTx of the Tx messages of the peers.
ProcessTx == ProcessTxOf(PeerKadHeights)

\* Mempool.processSendMempoolTxRequest(r), up to its call of processTx.
processSendMempoolTxRequest ==
    /\ ret = NoRet
    /\ task["rpc"].pc = "idle"
    /\ UNCHANGED <<chainVars, propVars, consensusVars, lockVars, lifeVars, netVars>>
    /\ \E id \in TxIds, size \in Sizes :
         task' = [task EXCEPT !["rpc"] =
             [pc |-> "processTx",
              t |-> [id |-> id, size |-> size,
                     kadHeight |-> KadcastInitialHeight]]]
    /\ UNCHANGED <<verified, ret, mloop, sel>>

\* processTx without its look into the pool.
processTx_NoContains(i) ==
    /\ ret = NoRet
    /\ task[i].pc = "processTx"
    /\ UNCHANGED <<chainVars, propVars, consensusVars, lockVars, lifeVars, netVars>>
    /\ IF TxType(task[i].t.id) = "Distribute"
       THEN /\ MempoolReturn("processTx", i, task[i].t.id,
                             "ErrCoinbaseTxNotAllowed", "none", FALSE)
            /\ task' = [task EXCEPT ![i] = [pc |-> "idle", t |-> NoTx]]
       ELSE /\ task' = [task EXCEPT ![i].pc = "checkTx"]
            /\ UNCHANGED ret
    /\ UNCHANGED <<verified, mloop, sel>>

\* processTx without its check of the type of the transaction.
processTx_NoCoinbaseCheck(i) ==
    /\ ret = NoRet
    /\ task[i].pc = "processTx"
    /\ UNCHANGED <<chainVars, propVars, consensusVars, lockVars, lifeVars, netVars>>
    /\ IF Contains(verified, task[i].t.id)
       THEN /\ MempoolReturn("processTx", i, task[i].t.id,
                             "ErrAlreadyExists", "none", FALSE)
            /\ task' = [task EXCEPT ![i] = [pc |-> "idle", t |-> NoTx]]
       ELSE /\ task' = [task EXCEPT ![i].pc = "checkTx"]
            /\ UNCHANGED ret
    /\ UNCHANGED <<verified, mloop, sel>>

\* Mempool.processTx(t), up to its look into the pool.
processTx(i) ==
    /\ ret = NoRet
    /\ task[i].pc = "processTx"
    /\ UNCHANGED <<chainVars, propVars, consensusVars, lockVars, lifeVars, netVars>>
    /\ IF TxType(task[i].t.id) = "Distribute"
       THEN /\ MempoolReturn("processTx", i, task[i].t.id,
                             "ErrCoinbaseTxNotAllowed", "none", FALSE)
            /\ task' = [task EXCEPT ![i] = [pc |-> "idle", t |-> NoTx]]
       ELSE IF Contains(verified, task[i].t.id)
       THEN /\ MempoolReturn("processTx", i, task[i].t.id,
                             "ErrAlreadyExists", "none", FALSE)
            /\ task' = [task EXCEPT ![i] = [pc |-> "idle", t |-> NoTx]]
       ELSE /\ task' = [task EXCEPT ![i].pc = "checkTx"]
            /\ UNCHANGED ret
    /\ UNCHANGED <<verified, mloop, sel>>

\* Mempool.checkTx(tx): what VerifyTransaction may answer within the
\* deadline of the call.
checkTx == {"ok", "err", "deadline"}

\* processTx taking a verification that ran out of its deadline for one
\* that passed.
processTxVerified_DeadlineOk(i) ==
    /\ ret = NoRet
    /\ task[i].pc = "checkTx"
    /\ UNCHANGED <<chainVars, propVars, consensusVars, lockVars, lifeVars, netVars>>
    /\ \E verdict \in checkTx :
         IF verdict = "err"
         THEN /\ MempoolReturn("processTx", i, task[i].t.id,
                               "errVerification", verdict, FALSE)
              /\ UNCHANGED verified
         ELSE \/ /\ MempoolReturn("processTx", i, task[i].t.id,
                                  "errStore", verdict, FALSE)
                 /\ UNCHANGED verified
              \/ /\ verified' = Put(verified, task[i].t)
                 /\ MempoolReturn("processTx", i, task[i].t.id,
                                  "nil", verdict, TRUE)
    /\ task' = [task EXCEPT ![i] = [pc |-> "idle", t |-> NoTx]]
    /\ UNCHANGED <<mloop, sel>>

\* processTx going on to Put whatever checkTx answers.
processTxVerified_IgnoreVerdict(i) ==
    /\ ret = NoRet
    /\ task[i].pc = "checkTx"
    /\ UNCHANGED <<chainVars, propVars, consensusVars, lockVars, lifeVars, netVars>>
    /\ \E verdict \in {"ok", "err", "deadline"} :
         /\ verified' = Put(verified, task[i].t)
         /\ MempoolReturn("processTx", i, task[i].t.id, "nil", verdict, TRUE)
    /\ task' = [task EXCEPT ![i] = [pc |-> "idle", t |-> NoTx]]
    /\ UNCHANGED <<mloop, sel>>

\* Mempool.processTx(t), from its call of checkTx on: the verification, the
\* Put and the goroutine that queues t for propagation.
processTxVerified(i) ==
    /\ ret = NoRet
    /\ task[i].pc = "checkTx"
    /\ UNCHANGED <<chainVars, propVars, consensusVars, lockVars, lifeVars, netVars>>
    /\ \E verdict \in checkTx :
         IF verdict # "ok"
         THEN /\ MempoolReturn("processTx", i, task[i].t.id,
                               "errVerification", verdict, FALSE)
              /\ UNCHANGED verified
         ELSE \/ /\ MempoolReturn("processTx", i, task[i].t.id,
                                  "errStore", verdict, FALSE)
                 /\ UNCHANGED verified
              \/ /\ verified' = Put(verified, task[i].t)
                 /\ MempoolReturn("processTx", i, task[i].t.id,
                                  "nil", verdict, TRUE)
    /\ task' = [task EXCEPT ![i] = [pc |-> "idle", t |-> NoTx]]
    /\ UNCHANGED <<mloop, sel>>

\* Mempool.onBlock(b), up to removeAccepted's look at the length of the
\* pool.
onBlock ==
    /\ ret = NoRet
    /\ mloop.pc = "idle"
    /\ UNCHANGED <<chainVars, propVars, consensusVars, lockVars, lifeVars, netVars>>
    /\ \E txs \in BlockTxs :
         IF PoolLen(verified) = 0
         THEN /\ ret' = [NoRet EXCEPT !.op = "onBlock", !.caller = "loop",
                                      !.txs = txs]
              /\ UNCHANGED mloop
         ELSE /\ mloop' = [pc |-> "removeAccepted", txs |-> txs, i |-> 1]
              /\ UNCHANGED ret
    /\ UNCHANGED <<verified, task, sel>>

\* Mempool.removeAccepted(b): the Delete of the next transaction of the
\* block; onBlock returns after the last.
removeAccepted ==
    /\ ret = NoRet
    /\ mloop.pc = "removeAccepted"
    /\ UNCHANGED <<chainVars, propVars, consensusVars, lockVars, lifeVars, netVars>>
    /\ verified' = Delete(verified, mloop.txs[mloop.i])
    /\ IF mloop.i = Len(mloop.txs)
       THEN /\ mloop' = [pc |-> "idle", txs |-> <<>>, i |-> 0]
            /\ ret' = [NoRet EXCEPT !.op = "onBlock", !.caller = "loop",
                                    !.txs = mloop.txs]
       ELSE /\ mloop' = [mloop EXCEPT !.i = @ + 1]
            /\ UNCHANGED ret
    /\ UNCHANGED <<task, sel>>

\* The loop of processGetMempoolTxsBySizeRequest over the entries order[i..]:
\* totalSize is a uint32.
RECURSIVE SelectBySize(_, _, _, _, _)
SelectBySize(order, i, totalSize, maxTxsSize, txs) ==
    IF i > Len(order) THEN txs
    ELSE LET total == (totalSize + (order[i].size % Uint32)) % Uint32
         IN  IF total <= maxTxsSize
             THEN SelectBySize(order, i + 1, total, maxTxsSize,
                               Append(txs, order[i]))
             ELSE txs

\* Mempool.processGetMempoolTxsBySizeRequest(r); a request shorter than a
\* uint32 (maxTxsSize = -1 here) is answered by an error.
processGetMempoolTxsBySizeRequest ==
    /\ mloop.pc = "idle"
    /\ UNCHANGED <<chainVars, propVars, consensusVars, lockVars, lifeVars, netVars>>
    /\ \E maxTxsSize \in -1 .. Uint32 - 1, order \in RangeSort(verified) :
         sel' = IF maxTxsSize = -1
                THEN [NoSel EXCEPT !.err = "errReadUint32"]
                ELSE [maxTxsSize |-> maxTxsSize, order |-> order,
                      txs |-> SelectBySize(order, 1, 0, maxTxsSize, <<>>),
                      err |-> "nil"]
    /\ UNCHANGED <<verified, task, mloop, ret>>

\* The mempool as NewMempool leaves it.
MempoolInit ==
    /\ verified = {}
    /\ task = [i \in Tasks |-> [pc |-> "idle", t |-> NoTx]]
    /\ mloop = [pc |-> "idle", txs |-> <<>>, i |-> 0]
    /\ ret = NoRet
    /\ sel = NoSel

\* The pools admission can build: any entries of transactions that are not
\* Distribute, one per hash.
Pools ==
    {pool \in SUBSET {t \in TxDescs : TxType(t.id) # "Distribute"
                                       /\ t.kadHeight = KadcastInitialHeight} :
        \A x, y \in pool : x.id = y.id => x = y}

\* The caller has read what the handler returned.
MempoolIdle ==
    /\ ret # NoRet
    /\ ret' = NoRet
    /\ UNCHANGED <<verified, task, mloop, sel>>
    /\ UNCHANGED <<chainVars, propVars, consensusVars, lockVars, lifeVars, netVars>>

MempoolNext ==
    \/ ProcessTx
    \/ processSendMempoolTxRequest
    \/ \E i \in Tasks : processTx(i)
    \/ \E i \in Tasks : processTxVerified(i)
    \/ onBlock
    \/ removeAccepted
    \/ MempoolIdle

\* ------------------------------------------------------------- propagation
\* The first byte of the header of a Tx message: none (0), the initial
\* height, or one above it.
KadHeights == {0, KadcastInitialHeight, KadcastInitialHeight + 1}

NoOut == [t |-> NoTx, topic |-> "none", header |-> -1, err |-> "nil"]

\* Run: both loops at their select, the context live.
LifeInit ==
    life = [ctx |-> "live", Loop |-> "select", propagateLoop |-> "select",
            t |-> NoTx, OnClose |-> 0]

\* The propagation as NewMempool leaves it, kadcast enabled.
PropagateInit ==
    /\ senders = {}
    /\ pendingPropagation = <<>>
    /\ kadcast = TRUE
    /\ out = NoOut

\* ProcessTx of a Tx message with any header.
ProcessTxKadcast == ProcessTxOf(KadHeights)

\* Mempool.processTx(t), its end: the goroutine it starts to send t to
\* pendingPropagation, and its return. The goroutines that hold the same t
\* count as one.
processTxQueue ==
    /\ ret.op = "processTx"
    /\ ret.queued
    /\ senders' = senders \cup {[t |-> ret.t, parked |-> FALSE]}
    /\ ret' = NoRet
    /\ UNCHANGED <<verified, task, mloop, sel>>
    /\ UNCHANGED <<pendingPropagation, kadcast, out>>
    /\ UNCHANGED <<chainVars, consensusVars, lockVars, lifeVars, netVars>>

\* The caller has read an error.
processTxFailed ==
    /\ ~ret.queued
    /\ MempoolIdle

\* The goroutine of processTx: m.pendingPropagation <- t. The send puts t in
\* the channel when there is room; when the channel is full the goroutine is
\* parked on it until there is.
sendPending ==
    /\ \E g \in senders :
         IF Len(pendingPropagation) < PendingCap
         THEN /\ pendingPropagation' = Append(pendingPropagation, g.t)
              /\ senders' = senders \ {g}
         ELSE /\ ~g.parked
              /\ senders' = (senders \ {g}) \cup {[g EXCEPT !.parked = TRUE]}
              /\ UNCHANGED pendingPropagation
    /\ UNCHANGED <<kadcast, out>>
    /\ UNCHANGED <<chainVars, mempoolVars, consensusVars, lockVars, lifeVars, netVars>>

\* Mempool.kadcastTx(t): what it publishes and what it returns.
kadcastTx(t) ==
    IF t.kadHeight > KadcastInitialHeight
    THEN {[t |-> t, topic |-> "none", header |-> -1,
           err |-> "errInvalidKadcastHeight"]}
    ELSE {[t |-> t, topic |-> "none", header |-> -1, err |-> "errMarshal"],
          [t |-> t, topic |-> "Kadcast", header |-> t.kadHeight, err |-> "nil"]}

\* Mempool.advertiseTx(txID).
advertiseTx(t) ==
    {[t |-> t, topic |-> "Gossip", header |-> -1, err |-> "nil"]}

\* Mempool.propagateLoop(ctx), one turn: the next transaction of the channel,
\* the wait for the limiter, and its propagation.
propagateLoop ==
    /\ pendingPropagation # <<>>
    /\ pendingPropagation' = Tail(pendingPropagation)
    /\ out' \in IF kadcast THEN kadcastTx(Head(pendingPropagation))
                           ELSE advertiseTx(Head(pendingPropagation))
    /\ UNCHANGED <<senders, kadcast>>
    /\ UNCHANGED <<chainVars, mempoolVars, consensusVars, lockVars, lifeVars, netVars>>

PropagateNext ==
    \/ ProcessTxKadcast
    \/ processTx("peer")
    \/ processTxVerified("peer")
    \/ processTxQueue
    \/ processTxFailed
    \/ sendPending
    \/ propagateLoop

\* The admissions of the peers and the propagation of what they admit, with
\* kadcast enabled or not.
PropagateSpecInit ==
    /\ ChainInit
    /\ MempoolInit
    /\ senders = {}
    /\ pendingPropagation = <<>>
    /\ kadcast \in BOOLEAN
    /\ out = NoOut
    /\ ConsensusIdle /\ LockInit /\ LifeInit /\ NetIdle

SpecPropagate == PropagateSpecInit /\ [][PropagateNext]_vars

\* ------------------------------------------------------------- Run
\* The transactions processTx queues for propagation.
QueuedTxs == [id : 1 .. MaxTx, size : {1}, kadHeight : PeerKadHeights]

\* The handlers Loop runs to their end before it selects again.
Handlers == {"handleRequest", "onBlock", "onIdle"}

\* The root context is cancelled.
cancel ==
    /\ life.ctx = "live"
    /\ life' = [life EXCEPT !.ctx = "done"]
    /\ UNCHANGED <<chainVars, mempoolVars, propVars, consensusVars, lockVars, netVars>>

\* Loop: select takes a request, an accepted block or a tick.
Loop_select ==
    /\ life.Loop = "select"
    /\ \E h \in Handlers : life' = [life EXCEPT !.Loop = h]
    /\ UNCHANGED <<chainVars, mempoolVars, propVars, consensusVars, lockVars, netVars>>

\* Loop: the handler returns, ticker.Reset, the next select.
Loop_handled ==
    /\ life.Loop \in Handlers
    /\ life' = [life EXCEPT !.Loop = "select"]
    /\ UNCHANGED <<chainVars, mempoolVars, propVars, consensusVars, lockVars, netVars>>

\* A Loop that returns on ctx.Done() without the cleanup.
Loop_Done_NoOnClose ==
    /\ life.Loop = "select"
    /\ life.ctx = "done"
    /\ life' = [life EXCEPT !.Loop = "terminated"]
    /\ UNCHANGED <<chainVars, mempoolVars, propVars, consensusVars, lockVars, netVars>>

\* Loop: case <-ctx.Done(): m.OnClose(); return.
Loop_Done ==
    /\ life.Loop = "select"
    /\ life.ctx = "done"
    /\ life' = [life EXCEPT !.OnClose = @ + 1, !.Loop = "terminated"]
    /\ UNCHANGED <<chainVars, mempoolVars, propVars, consensusVars, lockVars, netVars>>

\* A goroutine of processTx sends a transaction to pendingPropagation.
queueTx ==
    /\ Len(pendingPropagation) < PendingCap
    /\ \E t \in QueuedTxs : pendingPropagation' = Append(pendingPropagation, t)
    /\ UNCHANGED <<senders, kadcast, out, life>>
    /\ UNCHANGED <<chainVars, mempoolVars, consensusVars, lockVars, netVars>>

\* propagateLoop: case t := <-m.pendingPropagation.
propagateLoop_receive ==
    /\ life.propagateLoop = "select"
    /\ pendingPropagation # <<>>
    /\ pendingPropagation' = Tail(pendingPropagation)
    /\ life' = [life EXCEPT !.propagateLoop = "Wait",
                            !.t = Head(pendingPropagation)]
    /\ UNCHANGED <<senders, kadcast, out>>
    /\ UNCHANGED <<chainVars, mempoolVars, consensusVars, lockVars, netVars>>

\* propagateLoop: m.limiter.Wait(ctx) returns, at once with an error when
\* the context is cancelled.
propagateLoop_Wait ==
    /\ life.propagateLoop = "Wait"
    /\ life' = [life EXCEPT !.propagateLoop = "propagate"]
    /\ UNCHANGED <<chainVars, mempoolVars, propVars, consensusVars, lockVars, netVars>>

\* propagateLoop: the transaction is propagated, whatever Wait returned.
propagateLoop_propagate ==
    /\ life.propagateLoop = "propagate"
    /\ out' \in IF kadcast THEN kadcastTx(life.t) ELSE advertiseTx(life.t)
    /\ life' = [life EXCEPT !.propagateLoop = "select", !.t = NoTx]
    /\ UNCHANGED <<senders, pendingPropagation, kadcast>>
    /\ UNCHANGED <<chainVars, mempoolVars, consensusVars, lockVars, netVars>>

\* propagateLoop: case <-ctx.Done(): return.
propagateLoop_Done ==
    /\ life.propagateLoop = "select"
    /\ life.ctx = "done"
    /\ life' = [life EXCEPT !.propagateLoop = "terminated"]
    /\ UNCHANGED <<chainVars, mempoolVars, propVars, consensusVars, lockVars, netVars>>

RunNext ==
    \/ cancel
    \/ Loop_select
    \/ Loop_handled
    \/ Loop_Done
    \/ queueTx
    \/ propagateLoop_receive
    \/ propagateLoop_Wait
    \/ propagateLoop_propagate
    \/ propagateLoop_Done

\* ------------------------------------------------------------- specifications
Init ==
    /\ ChainInit /\ MempoolInit /\ PropagateInit
    /\ ConsensusIdle /\ LockInit /\ LifeInit /\ NetIdle

\* The signature set reduction of one round.
ReductionSpecInit ==
    /\ ChainInit /\ MempoolInit /\ PropagateInit /\ ReductionInit
    /\ SelectionIdle /\ EventIdle /\ LockInit /\ LifeInit /\ NetIdle

SpecReduction == ReductionSpecInit /\ [][ReductionNext]_vars

\* SignatureSet runs on: a sigSetVote that can go on does, a send that finds
\* room in the channel is done, and the step timer of a counting step fires.
SpecReductionFair ==
    /\ SpecReduction
    /\ WF_vars(sigSetVote)
    /\ WF_vars(sigSetVote_send)
    /\ WF_vars(countTimeout)

\* One selection phase of a Selector and one signature set generation.
SelectionSpecInit ==
    /\ ChainInit /\ MempoolInit /\ PropagateInit /\ ReductionIdle
    /\ SelectionInit /\ EventIdle /\ LockInit /\ LifeInit /\ NetIdle

SpecSelection == SelectionSpecInit /\ [][SelectionNext]_vars

\* The round trip of one consensus event through its marshaller.
EventSpecInit ==
    /\ ChainInit /\ MempoolInit /\ PropagateInit /\ ReductionIdle
    /\ SelectionIdle /\ EventInit /\ LockInit /\ LifeInit /\ NetIdle

SpecEvents == EventSpecInit /\ [][EventNext]_vars

\* The tasks of the chain and of the connector on their shared data.
SpecLocks == Init /\ [][LockNext]_vars

\* The goroutines of Mempool.Run up to and after the cancellation of the
\* root context.
SpecRun == Init /\ [][RunNext]_vars

\* A select with several ready cases takes one of them at random, so a case
\* that is ready again and again is taken in the end; a handler, the wait
\* for the limiter and a propagation return.
SpecRunFair ==
    /\ SpecRun
    /\ SF_vars(Loop_Done)
    /\ SF_vars(propagateLoop_Done)
    /\ WF_vars(Loop_handled)
    /\ WF_vars(propagateLoop_Wait)
    /\ WF_vars(propagateLoop_propagate)

\* The goroutines of one peer up to and through its Disconnect.
SpecPeer == Init /\ [][PeerNext]_vars

\* The Connector taking connections and Addr messages.
ConnectorSpecInit ==
    /\ ChainInit /\ MempoolInit /\ PropagateInit
    /\ ConsensusIdle /\ LockInit /\ LifeInit
    /\ PeerInit /\ ConnectorInit /\ ConnmgrIdle /\ TmpIdle

SpecConnector == ConnectorSpecInit /\ [][ConnectorNext]_vars

\* The Connmgr with its loop, the Connects under way and its callers.
ConnmgrSpecInit ==
    /\ ChainInit /\ MempoolInit /\ PropagateInit
    /\ ConsensusIdle /\ LockInit /\ LifeInit
    /\ PeerInit /\ ConnectorIdle /\ ConnmgrInit /\ TmpIdle

SpecConnmgr == ConnmgrSpecInit /\ [][ConnmgrNext]_vars

\* One TmpMap, its callers and the clock.
TmpSpecInit ==
    /\ ChainInit /\ MempoolInit /\ PropagateInit
    /\ ConsensusIdle /\ LockInit /\ LifeInit
    /\ PeerInit /\ ConnectorIdle /\ ConnmgrIdle /\ TmpInit

SpecTmpMap == TmpSpecInit /\ [][TmpNext]_vars

\* The chain manager.
Spec == Init /\ [][ChainNext]_vars

\* The mempool: admissions by the two callers, interleaved with the block
\* events the main loop handles.
SpecMempool == Init /\ [][MempoolNext]_vars

\* The chain manager receiving blocks, with the RoundUpdate its consensus
\* loop holds.
RoundInit ==
    /\ ChainInitOf(getRoundUpdate([tip |-> Genesis, p |-> "p0"]))
    /\ MempoolInit
    /\ PropagateInit
    /\ ConsensusIdle /\ LockInit /\ LifeInit /\ NetIdle

\* The blocks whose certificate is of the step runStateTransition finalizes
\* on, or of one of the steps it accepts on.
RoundBlocks == {blk \in Blocks : blk.step \in {1, 3}}

CallProcessBlockFromNetworkRound == CallProcessBlockFromNetworkOf(RoundBlocks)

RoundNext ==
    \/ CallProcessBlockFromNetworkRound
    \/ Idle

SpecRound == RoundInit /\ [][RoundNext]_vars

\* The selection handler, on every pool and every request.
SelectInit ==
    /\ ChainInit
    /\ verified \in Pools
    /\ task = [i \in Tasks |-> [pc |-> "idle", t |-> NoTx]]
    /\ mloop = [pc |-> "idle", txs |-> <<>>, i |-> 0]
    /\ ret = NoRet
    /\ sel = NoSel
    /\ PropagateInit
    /\ ConsensusIdle /\ LockInit /\ LifeInit /\ NetIdle

SpecSelect == SelectInit /\ [][processGetMempoolTxsBySizeRequest]_vars

\* ------------------------------------------------------------- chain claims
Range(f) == {f[i] : i \in DOMAIN f}

\* C1: across the calls of ProcessBlockFromNetwork (and, through it, of
\* TryNextConsecutiveBlockInSync and TryNextConsecutiveBlockOutSync) and
\* of ProcessSyncTimerExpired, the height of the tip never decreases.
C1_TipHeightNeverDecreases == [][tip'.height >= tip.height]_vars

\* C2: whenever acceptBlock succeeds for a block b, b.height is the height
\* of the tip at entry plus one, b.prevHash is the hash of the tip at entry,
\* and the tip afterwards is b.
C2_BlockLinkage ==
    (acc.called /\ acc.err = "nil") =>
        /\ acc.blk.height = acc.tipBefore.height + 1
        /\ acc.blk.prevHash = acc.tipBefore.hash
        /\ tip = acc.blk

\* A call of acceptBlock has succeeded, on top of a block other than genesis.
C2_Witness ==
    acc.called /\ acc.err = "nil" /\ acc.tipBefore.height = 1

\* C3: when the state hash the executor's Accept/Finalize answered differs
\* from the one of the block header, acceptBlock returns the
\* invalid-state-hash error, the tip is the one at entry, Loader.Append is
\* not called and no AcceptedBlock is published.
C3_StateHashMismatch ==
    (acc.called /\ acc.resp \in StateHashes /\ acc.resp # acc.blk.stateHash) =>
        /\ acc.err = "errInvalidStateHash"
        /\ tip = acc.tipBefore
        /\ ~acc.appendCalled
        /\ "Append" \notin Range(trace)
        /\ "PublishAcceptedBlock" \notin Range(trace)

\* The executor answered the empty state hash for a block declaring another.
C3_Witness ==
    /\ acc.called
    /\ acc.call \in {"Accept", "Finalize"}
    /\ acc.resp = ""
    /\ acc.blk.stateHash = "s1"

\* ------------------------------------------------------------- mempool claims
\* The step of caller i out of the look of processTx into the pool.
ContainsStep(i) == task[i].pc = "processTx" /\ task'[i] # task[i]

\* The step of caller i out of the verification of processTx.
VerifiedStep(i) == task[i].pc = "checkTx" /\ task'[i] # task[i]

RECURSIVE SeqSize(_)
SeqSize(txs) ==
    IF txs = <<>> THEN 0 ELSE Head(txs).size + SeqSize(Tail(txs))

\* C4: a processTx that succeeds leaves the transaction in the pool, and a
\* processTx called for a transaction that is in the pool (the second of two
\* calls in succession) returns ErrAlreadyExists, leaves the pool as it is and
\* queues nothing for propagation.
C4_Idempotence ==
    [][\A i \in Tasks :
        /\ (VerifiedStep(i) /\ ret'.err = "nil") =>
               task[i].t \in verified'
        /\ (ContainsStep(i) /\ Contains(verified, task[i].t.id)) =>
               /\ task'[i].pc = "idle"
               /\ ret'.op = "processTx"
               /\ ret'.id = task[i].t.id
               /\ ret'.err = "ErrAlreadyExists"
               /\ ~ret'.queued
               /\ verified' = verified]_vars

C4_Witness ==
    /\ ret.op = "processTx"
    /\ ret.err = "ErrAlreadyExists"
    /\ Contains(verified, ret.id)

\* C5: when onBlock has returned for a block, the pool holds none of the
\* transactions of that block, whatever admissions ran beside it.
C5_EvictionComplete ==
    ret.op = "onBlock" =>
        \A k \in DOMAIN ret.txs : ~Contains(verified, ret.txs[k])

\* C6: the transactions the GetMempoolTxsBySize handler returns have a total
\* size of at most the limit of the request, and are in non-increasing order
\* of fee.
C6_SelectionBound ==
    (sel.err = "nil" /\ sel.maxTxsSize >= 0) =>
        /\ SeqSize(sel.txs) <= sel.maxTxsSize
        /\ \A i, j \in DOMAIN sel.txs :
               i < j => Fee(sel.txs[i].id) >= Fee(sel.txs[j].id)

\* C7: the transactions the GetMempoolTxsBySize handler returns are the longest
\* prefix of the pool in descending order of fee whose cumulative size is at
\* most the limit of the request.
C7_LongestPrefix ==
    (sel.err = "nil" /\ sel.maxTxsSize >= 0) =>
        /\ Len(sel.txs) <= Len(sel.order)
        /\ sel.txs = SubSeq(sel.order, 1, Len(sel.txs))
        /\ SeqSize(sel.txs) <= sel.maxTxsSize
        /\ Len(sel.txs) < Len(sel.order) =>
               SeqSize(SubSeq(sel.order, 1, Len(sel.txs) + 1)) > sel.maxTxsSize

C9_FullPoolRejects ==
    [][\A i \in Tasks :
        (task[i].pc = "idle" /\ PoolSize(verified) >= MaxSizeBytes
            /\ <<task[i], ret>>' # <<task[i], ret>>) =>
            /\ task'[i].pc = "idle"
            /\ ret'.err = "errMempoolFull"
            /\ verified' = verified]_vars

\* C10: when VerifyTransaction answers with an error or its deadline expires,
\* processTx returns an error, the pool is as it was and nothing is queued
\* for propagation.
C10_VerifierError ==
    [][\A i \in Tasks :
        (VerifiedStep(i) /\ ret'.verdict \in {"err", "deadline"}) =>
            /\ ret'.op = "processTx"
            /\ ret'.id = task[i].t.id
            /\ ret'.err # "nil"
            /\ ~ret'.queued
            /\ verified' = verified]_vars

C10_Witness ==
    /\ ret.op = "processTx"
    /\ ret.verdict = "deadline"
    /\ ret.err = "errVerification"

\* ------------------------------------------------------------- propagation claims
\* C11: the channel holds at most its capacity, and no goroutine waits on the
\* full channel to enqueue its transaction: a transaction admitted while the
\* channel is full is dropped from propagation.
C11_FullChannelDrops ==
    /\ Len(pendingPropagation) <= PendingCap
    /\ \A g \in senders : ~g.parked

\* C12: a transaction received with a kadcast height above the initial one is
\* not in the pool and is not published on the Kadcast topic.
C12_HighKadHeightRejected ==
    /\ \A e \in verified : e.kadHeight <= KadcastInitialHeight
    /\ out.topic = "Kadcast" => out.t.kadHeight <= KadcastInitialHeight

\* ------------------------------------------------------------- acceptance claims
\* C13: in a block acceptance, the executor call is Finalize exactly when the
\* step of the certificate of the block is 3, and Accept for every other step.
C13_FinalizeAtStep3 ==
    (acc.called /\ acc.call # "none") =>
        /\ acc.call \in {"Finalize", "Accept"}
        /\ acc.call = "Finalize" <=> acc.blk.step = 3

C13_Witness ==
    /\ acc.called
    /\ acc.call = "Finalize"
    /\ acc.blk.step = 3
    /\ acc.err = "nil"

\* C13 as stated: the executor call is Finalize exactly when the step of the
\* certificate is 1.
C13_FinalizeAtStep1 ==
    (acc.called /\ acc.call # "none") =>
        /\ acc.call \in {"Finalize", "Accept"}
        /\ acc.call = "Finalize" <=> acc.blk.step = 1

\* The place of event e in the trace of the last call, 0 when it is not there.
Pos(e) ==
    IF \E i \in DOMAIN trace : trace[i] = e
    THEN CHOOSE i \in DOMAIN trace : trace[i] = e
    ELSE 0

\* Event a, when the last call did b, was done before it.
Before(a, b) == Pos(b) > 0 => (Pos(a) > 0 /\ Pos(a) < Pos(b))

\* C14: acceptBlock validates, runs the state transition, appends through the
\* Loader, swaps the tip, publishes AcceptedBlock and clears the candidates,
\* in that order; a publication comes after a successful Append with the tip
\* at the block, and a failed Append leaves the tip and publishes nothing.
C14_AcceptOrder ==
    acc.called =>
        /\ Before("isValidBlock", "GetStateRoot")
        /\ Before("GetStateRoot", "Accept")
        /\ Before("GetStateRoot", "Finalize")
        /\ Before(acc.call, "Append")
        /\ Before("Append", "tip")
        /\ Before("tip", "PublishAcceptedBlock")
        /\ Before("PublishAcceptedBlock", "ClearCandidateMessages")
        /\ Pos("PublishAcceptedBlock") > 0 =>
               /\ acc.appendCalled
               /\ acc.err = "nil"
               /\ store[Len(store)] = acc.blk
               /\ tip = acc.blk
        /\ acc.err = "errAppend" =>
               /\ tip = acc.tipBefore
               /\ Pos("PublishAcceptedBlock") = 0

C14_Witness ==
    /\ acc.called
    /\ Pos("ClearCandidateMessages") > 0
    /\ tip = acc.blk
    /\ tip.height = 2

\* ------------------------------------------------------------- network claims
\* The block the last call was made with is below the tip, or is the tip.
AlreadyAccepted(b, t) ==
    \/ b.height < t.height
    \/ b.height = t.height /\ b.hash = t.hash

\* C15: ProcessBlockFromNetwork with a block below the tip, or with the block
\* of the tip, returns no error, changes nothing of the chain and calls
\* neither the fallback, nor the synchronizer, nor the executor.
C15_AlreadyAcceptedIgnored ==
    [][(op' = "ProcessBlockFromNetwork" /\ AlreadyAccepted(arg', tip)) =>
        /\ err' = "nil"
        /\ trace' = <<>>
        /\ ~acc'.called
        /\ UNCHANGED <<tip, p, state, highestSeen, loop, store>>]_vars

C15_Witness ==
    /\ op = "ProcessBlockFromNetwork"
    /\ arg.height = tip.height
    /\ arg.hash = tip.hash
    /\ trace = <<>>
    /\ highestSeen > tip.height

\* C16: the fallback is started only by ProcessBlockFromNetwork, for a block
\* of the height of the tip with another hash than the tip.
C16_FallbackOnlyAtTip ==
    [][(\E i \in DOMAIN trace' : trace'[i] = "tryFallback") =>
        /\ op' = "ProcessBlockFromNetwork"
        /\ arg'.height = tip.height
        /\ arg'.hash # tip.hash]_vars

C16_Witness ==
    /\ op = "ProcessBlockFromNetwork"
    /\ Pos("tryFallback") > 0
    /\ Pos("Revert") > 0
    /\ arg.height = 1

\* ------------------------------------------------------------- synchronizer claims
\* The last call restarted consensus.
Restarted(tr) == \E i \in DOMAIN tr : tr[i] = "RestartConsensus"

C18_RestartIffAdvanced ==
    [][(op' = "ProcessBlockFromNetwork" /\ state = "inSync"
            /\ arg'.height = tip.height + 1) =>
        (tip' # tip <=> Restarted(trace'))]_vars

\* C19: VerifyCandidateBlock and TryNextConsecutiveBlockIsValid, whatever
\* they answer, leave the tip, the provisioners, highestSeen and the state of
\* the synchronizer as they were, append nothing through the Loader and
\* publish no AcceptedBlock.
C19_ValidationIsStateless ==
    [][op' \in {"VerifyCandidateBlock", "TryNextConsecutiveBlockIsValid"} =>
        /\ UNCHANGED <<tip, p, highestSeen, state, loop, store>>
        /\ ~acc'.called
        /\ \A i \in DOMAIN trace' :
               trace'[i] \notin {"Append", "tip", "PublishAcceptedBlock",
                                 "Accept", "Finalize", "RestartConsensus"}]_vars

C19_Witness ==
    /\ op = "TryNextConsecutiveBlockIsValid"
    /\ err = "nil"
    /\ arg.height = tip.height + 1
    /\ tip.height = 1

\* ------------------------------------------------------------- round update claims
\* The provisioners a holder of a RoundUpdate reads in it, the chain's
\* provisioners being pp.
ProvisionersOf(update, pp) == IF update.P = "c.p" THEN pp ELSE update.P

CounterReceives ==
    /\ phase \in {"count1", "count2"}
    /\ SigSetVoteChan # <<>>
    /\ SigSetVoteChan' = Tail(SigSetVoteChan)

\* C21: within a step, a vote of a sender whose vote is already recorded
\* changes neither the counts nor the recorded senders, and does not end the
\* step.
C21_OneVotePerSender ==
    [][(CounterReceives /\ Head(SigSetVoteChan).PubKey \in voters) =>
           /\ counts' = counts
           /\ voters' = voters
           /\ phase' = phase
           /\ outcome' = outcome
           /\ ctx' = ctx]_vars

\* The second vote of a sender is next, and counted it would end the step.
C21_Witness ==
    /\ phase \in {"count1", "count2"}
    /\ SigSetVoteChan # <<>>
    /\ Head(SigSetVoteChan).PubKey \in voters
    /\ counts[Head(SigSetVoteChan).SigSetHash]
         + Verify(ctx.CurrentCommittee, Head(SigSetVoteChan).PubKey) >= Seats

\* ceil(2/3 * committee size).
QuorumThreshold == (2 * Seats + 2) \div 3

\* C22: a step ends as soon as the votes counted for a hash reach the quorum
\* threshold: while a step is counting, no hash has reached it.
C22_QuorumEndsStep ==
    phase \in {"count1", "count2"} =>
        \A h \in VoteHashes : counts[h] < QuorumThreshold

\* C23: the vote the node gossips in the second step carries the hash that
\* won the first step, the empty hash when the first step timed out.
C23_SecondStepVote ==
    [][(phase = "vote2" /\ Len(gossip') > Len(gossip)) =>
           gossip'[Len(gossip')].SigSetHash =
               IF outcome[1] = "timeout" THEN Fallback ELSE outcome[1]]_vars

\* C24: after the second step a timeout and a quorum on the empty hash both
\* leave no result hash and send no agreement; any other quorum sends one
\* agreement, and no agreement is sent otherwise.
C24_SecondStepEnd ==
    /\ Len(agreements) <= 1
    /\ (phase = "returned" /\ Len(outcome) = 2) =>
           IF outcome[2] \in {"timeout", Fallback}
           THEN ctx.SigSetHash = "nil" /\ agreements = <<>>
           ELSE agreements = <<outcome[2]>>
    /\ agreements # <<>> =>
           /\ Len(outcome) = 2
           /\ outcome[2] \notin {"timeout", Fallback}

\* The second step reached the quorum on the empty hash.
C24_Witness ==
    /\ phase = "returned"
    /\ Len(outcome) = 2
    /\ outcome[2] = Fallback

\* C25: a vote of an earlier step that the counter of a step receives is
\* dropped: it changes no count and does not end the step.
C25_LateVoteDropped ==
    [][(CounterReceives /\ Head(SigSetVoteChan).Step < ctx.Step) =>
           /\ counts' = counts
           /\ phase' = phase
           /\ outcome' = outcome]_vars

\* ------------------------------------------------------------- selection claims
\* The candidates of a generation phase that count: valid, of another
\* provisioner, the first valid one of their sender.
FirstValid(received) ==
    {i \in 1..Len(received) :
        /\ received[i].Check = "ok"
        /\ received[i].PubKey # "me"
        /\ \A j \in 1..(i - 1) :
               received[j].PubKey = received[i].PubKey
                   => received[j].Check # "ok"}

MaxOf(S) == CHOOSE x \in S : \A y \in S : y <= x

\* C26: a phase that ended has emitted exactly one value, and when events
\* were received it is one that no received event has priority over; a
\* generation that returned holds the set of a candidate of the highest
\* stake among its own and the valid ones received.
C26_BestCandidateEmitted ==
    /\ selector.pc # "select" =>
           /\ Len(selector.BestEventChan) = 1
           /\ selector.events # <<>> =>
                  \E i \in 1..Len(selector.events) :
                      /\ selector.BestEventChan[1] = selector.events[i]
                      /\ \A j \in 1..Len(selector.events) :
                             ~Priority(selector.events[i].Sender,
                                       selector.events[j].Sender)
    /\ generation.pc = "returned" =>
           LET received == generation.received
               best == MaxOf({generation.Weight} \cup
                             {received[i].Stake : i \in FirstValid(received)})
           IN  /\ generation.highest = best
               /\ \/ /\ generation.Weight = best
                     /\ generation.SigSetVotes = SetOf("me")
                  \/ \E i \in FirstValid(received) :
                         /\ received[i].Stake = best
                         /\ generation.SigSetVotes = received[i].SignatureSet

\* ------------------------------------------------------------- event claims
\* C27: an event read back from the bytes its marshaller wrote equals the
\* event written, the read does not fail and leaves no byte in the buffer.
C27_RoundTrip ==
    codec.pc = "unmarshalled" =>
        /\ ~codec.err
        /\ codec.out = codec.ev
        /\ codec.r = <<>>

\* An agreement with a full vote set and a non-empty key went through.
C27_Witness ==
    /\ codec.pc = "unmarshalled"
    /\ codec.ev.kind = "Agreement"
    /\ Len(codec.ev.e.VoteSet) = MaxVotes
    /\ codec.ev.e.Header.PubKeyBLS # <<>>
    /\ codec.ev.e.Header.Round = (Base ^ RoundLen) - 1

\* ------------------------------------------------------------- lock claims
\* C28: a task that is reading the tip or the registry holds the lock beside
\* it, for reading or for writing; a task that is writing one holds its lock
\* for writing.
C28_AccessesUnderLock ==
    \A t \in Goroutines :
        /\ Current(t).op = "write" => held[Current(t).res].writer = t
        /\ Current(t).op = "read" =>
               \/ held[Current(t).res].writer = t
               \/ t \in held[Current(t).res].readers

\* ------------------------------------------------------------- writer claims
\* C29: every Put and every Delete that changes the pool is a step of the
\* main loop.
C29_SingleWriter ==
    [][verified' # verified => mloop' # mloop]_vars

\* ------------------------------------------------------------- termination claims
\* Both loops of the mempool have returned, OnClose was called once.
Terminated ==
    /\ life.Loop = "terminated"
    /\ life.propagateLoop = "terminated"
    /\ life.OnClose = 1

C31_AcceptBlockAtomic ==
    (acc.called /\ acc.err # "nil") =>
        /\ tip = acc.tipBefore
        /\ p = acc.pBefore

\* ------------------------------------------------------------- C32
\* C32: when the executor's state root cannot be fetched, differs from the
\* tip's state hash, or the tip's state hash is empty, the state transition
\* returns an error and calls neither Accept nor Finalize.
C32_SanityCheckFirst ==
    (/\ acc.called
     /\ acc.root # "none"
     /\ \/ acc.root = "failed"
        \/ acc.root # acc.tipBefore.stateHash
        \/ acc.tipBefore.stateHash = "") =>
        /\ acc.err \in {"errGetStateRoot", "errInvalidStateHash"}
        /\ acc.root = "failed" <=> acc.err = "errGetStateRoot"
        /\ acc.call = "none"
        /\ \A i \in 1..Len(trace) : trace[i] \notin {"Accept", "Finalize"}
        /\ tip = acc.tipBefore
        /\ p = acc.pBefore

\* C32: the tip's state hash is empty and so is the executor's state root.
C32_Witness ==
    /\ acc.called
    /\ acc.root = ""
    /\ acc.tipBefore.stateHash = ""
    /\ acc.err = "errInvalidStateHash"
    /\ acc.call = "none"

\* ------------------------------------------------------------- C34
\* C34: every entry of the verified pool is of a transaction that is not
\* Distribute, the pool holds one entry per hash, and an entry enters the
\* pool only in a processTx whose verification succeeded, whatever the
\* interleaving of the admissions and of the main loop.
C34_VerifiedPool ==
    /\ [](\A x \in verified :
            /\ TxType(x.id) # "Distribute"
            /\ \A y \in verified : x.id = y.id => x = y)
    /\ [][\A e \in verified' \ verified :
            /\ ret'.op = "processTx"
            /\ ret'.id = e.id
            /\ ret'.verdict = "ok"
            /\ ret'.err = "nil"]_vars

\* C34: a processTx has put its transaction while another admission of the
\* same hash is past the look into the pool.
C34_Witness ==
    /\ ret.op = "processTx"
    /\ ret.err = "nil"
    /\ ret.verdict = "ok"
    /\ Contains(verified, ret.id)
    /\ \E i \in Tasks : task[i].pc = "checkTx" /\ task[i].t.id = ret.id

\* ------------------------------------------------------------- C39
\* C39: in a counting step the counters hold, summed over all hashes, the
\* seats of the senders counted so far, so a sender without a seat adds
\* nothing; with the vote about to be counted the sum stays within the size
\* of the committee and below 2^8, so no counter wraps.
C39_CountedWeight ==
    /\ [](/\ SumOver(counts, VoteHashes) =
                SumOver(ctx.CurrentCommittee, voters)
          /\ SumOver(counts, VoteHashes) <=
                CommitteeLen(ctx.CurrentCommittee)
          /\ (/\ phase \in {"count1", "count2"}
              /\ SigSetVoteChan # <<>>
              /\ Head(SigSetVoteChan).PubKey \notin voters) =>
                LET m == Head(SigSetVoteChan)
                    sum == SumOver(counts, VoteHashes) +
                           Verify(ctx.CurrentCommittee, m.PubKey)
                IN  /\ sum <= CommitteeLen(ctx.CurrentCommittee)
                    /\ sum < Uint8)
    /\ [][\A pk \in voters' \ voters :
            Verify(ctx.CurrentCommittee, pk) = 0 => counts' = counts]_vars

\* C39: a sender without a seat was counted after one with seats.
C39_Witness ==
    /\ phase \in {"count1", "count2"}
    /\ \E pk \in voters : Verify(ctx.CurrentCommittee, pk) = 0
    /\ \E pk \in voters : Verify(ctx.CurrentCommittee, pk) > 0
    /\ SumOver(counts, VoteHashes) > 0

\* ------------------------------------------------------------- C40
\* C40: SignatureSet always returns, and when it returns without an error
\* the step has been advanced by exactly 2.
C40_SignatureSetTerminates ==
    /\ <>(phase = "returned")
    /\ []((phase = "returned" /\ rerr \in {"nil", "errSendSet"}) =>
            ctx.Step = 3)

\* ------------------------------------------------------------- C33
\* C33: the teardown of Disconnect (the stall detector's Quit, the close of
\* quitch, the close of the connection) runs at most once for a peer,
\* however StartProtocol, ReadLoop, WriteLoop and the idle timer interleave,
\* and a Disconnect that finds the peer disconnected changes nothing.
C33_TeardownOnce ==
    /\ [](peer.teardowns <= 1 /\ peer.quitch # "panic")
    /\ [][\A t \in PeerTasks :
            (pcall[t] = "Load" /\ pcall'[t] # "Load"
                /\ peer.disconnected # 0) =>
                    (peer' = peer /\ pcall'[t] = Returned(t))]_vars

\* ------------------------------------------------------------- C35
\* C35: the registry never holds more peers than the maximum of connections
\* of the configuration, 50 when the configuration sets none, however
\* inbound connections, outbound connections and Addr messages interleave.
C35_RegistryBounded ==
    GetConnectionsCount <= IF netcfg.MaxConnections = 0
                           THEN defaultMaxConnections
                           ELSE netcfg.MaxConnections

\* ------------------------------------------------------------- C36
\* The closures a Connect of the Request r sent that wait for loop.
Waiting(r) ==
    {i \in DOMAIN actionch :
        actionch[i].r = r /\ actionch[i].fn # "disconnected"}

\* C36: a request that is neither permanent nor inbound, so one whose dials
\* all failed, is dialed at most maxRetries + 1 times; OnFail is called for
\* it at most once, in the step that deletes its address from the pending
\* list, and after that no Connect and no closure is left for it; a request
\* with dials left is not given up.
C36_RetriesBounded ==
    /\ [](\A r \in DOMAIN reqs :
            (~reqs[r].Inbound /\ ~reqs[r].Permanent) =>
                /\ connlog.dials[r] <= maxRetries + 1
                /\ connlog.OnFail[r] <= 1
                /\ connlog.OnFail[r] = 1 =>
                       /\ connlog.dials[r] = maxRetries + 1
                       /\ cpc[r] = "done"
                       /\ Waiting(r) = {}
                       /\ PendingList[reqs[r].Addr] # r
                /\ (connlog.dials[r] = maxRetries + 1 /\ cpc[r] = "done"
                        /\ Waiting(r) = {}) =>
                       connlog.OnFail[r] = 1)
    /\ [][\A r \in DOMAIN reqs :
            connlog'.OnFail[r] # connlog.OnFail[r] =>
                PendingList'[reqs[r].Addr] = 0]_vars

\* C36: a request was given up after its dials all failed.
C36_Witness ==
    \E r \in DOMAIN reqs :
        /\ ~reqs[r].Inbound
        /\ connlog.dials[r] = maxRetries + 1
        /\ connlog.OnFail[r] = 1
        /\ cpc[r] = "done"

\* ------------------------------------------------------------- C37
\* C37: no address is in the pending list and in the connected list at the
\* same time, whatever NewRequest, Connect and Disconnect are called, and the
\* closure of connected leaves the request in the connected list with no
\* retries and its address out of the pending list.
C37_ListsDisjoint ==
    /\ [](\A a \in ConnAddrs : PendingList[a] = 0 \/ ConnectedList[a] = 0)
    /\ [][(actionch # <<>> /\ Head(actionch).fn = "connected"
              /\ actionch' # actionch /\ Len(actionch') < Len(actionch)) =>
            LET r == Head(actionch).r IN
            /\ ConnectedList'[reqs[r].Addr] = r
            /\ reqs'[r].Retries = 0
            /\ PendingList'[reqs[r].Addr] = 0]_vars

\* ------------------------------------------------------------- C38
\* C38: IsExpired returns true only when the cache of the current height
\* exists and at least expire seconds have passed since it was made; for a
\* map without a cache at the current height, and for one whose cache was
\* just made, with expire > 0 it returns false.
C38_ExpiredOnlyAfterExpire ==
    /\ expired = "true" =>
           /\ tmap.msgFilter[tmap.height] # 0
           /\ now >= tmap.msgFilter[tmap.height]
    /\ (expired # "none" /\ tmap.expire > 0
            /\ \/ tmap.msgFilter[tmap.height] = 0
               \/ tmap.msgFilter[tmap.height] = now + tmap.expire) =>
           expired = "false"

====
